---- MODULE Spec2Model ----
(***************************************************************************)
(* Cognitive-assessment engines of the ALZO patient application:           *)
(*   NBackMemoryGame   (src/unnamed/part_006)                              *)
(*   ClockDrawingGame  (src/alzo-master/alzo-master/patient/games/clock.js)*)
(*   MazeNavigationTask (src/unnamed/part_005)                             *)
(*   TrailMakingPuzzle  (src/unnamed/part_007)                             *)
(* and the medical-records routes of its server                            *)
(* (src/server/models/AccessLog.js), whose state is prefixed sv_.          *)
(* Every engine is a module-scoped closure; its private `let` variables    *)
(* are the state.  Variables are prefixed nb_ / ck_ / mz_ / tr_ because the*)
(* engines reuse the same names (gameStarted, timer, ...).  gm_ holds the  *)
(* locals of one generateMaze call of MazeNavigationTask.                  *)
(* Each engine has its own specification; the variables of the other       *)
(* engines stay at their constructed values.                               *)
(***************************************************************************)
EXTENDS Integers, Sequences, FiniteSets, TLC

VARIABLES
  \* ---- NBackMemoryGame, part_006:43-60 ----
  nb_nValue, nb_sequenceLength,   \* options stored by init
  nb_sequence,                    \* sequence (1-based here, 0-based in JS)
  nb_currentIndex,
  nb_timer,                       \* callback of the pending timeout whose id is held in `timer`
  nb_untracked,                   \* pending timeouts whose id `timer` does not hold
  nb_gameStarted, nb_gameCompleted,
  nb_score,
  nb_startDisplay,                \* startButton.style.display = 'block'
  nb_canvas,                      \* what the canvas shows: "blank" or a shape
  nb_onComplete,                  \* payloads handed to completeCallback since the last start/reset
  nb_pressed,                     \* Match clicked since the last start/reset
  nb_afterReset,                  \* reset() ran and startGame has not run since
  \* ---- ClockDrawingGame, clock.js:40-50 (angles in half degrees) ----
  ck_targetTime,                  \* "HH:MM" as a sequence of characters
  ck_targetHourAngle, ck_targetMinuteAngle,
  ck_currentHourAngle, ck_currentMinuteAngle,
  ck_isDraggingHour, ck_isDraggingMinute,
  ck_dragHand,                    \* the hand whose mousedown / touchstart came last since the last mouseup / touchend, or "none"
  ck_pointerEvents,               \* hourHand/minuteHand.style.pointerEvents
  ck_submitDisabled,              \* submitButton.disabled
  ck_onComplete,                  \* Submits since the last reset or init: score handed over, hand angles then
  ck_controllers,                 \* the targetTime given to each init call, one per controller returned
  ck_detached,                    \* hands and Submit button of the containers of earlier init calls
  ck_resultElements,              \* result elements appended to container and not removed
  \* ---- MazeNavigationTask, part_005:42-55 ----
  mz_mazeSize, mz_complexity,     \* options stored by init; complexity in tenths
  mz_maze,                        \* maze[y][x]
  mz_playerPos, mz_exitPos,
  mz_gameStarted, mz_gameCompleted,
  mz_updateTimer,                 \* the timeout whose id is held in updateTimer is pending
  mz_untracked,                   \* pending updateTime timeouts whose id updateTimer does not hold
  mz_startDisplay, mz_resetDisplay, \* startButton / resetButton displayed
  mz_onComplete,                  \* completeCallback calls since the last start/reset
  mz_now,                         \* the value new Date() gives, in milliseconds
  mz_startTime, mz_endTime,       \* << >> while undefined, else <<Date in milliseconds>>
  mz_timeTaken,                   \* << >>, or <<seconds handed to completeCallback>> since the last start/reset
  \* ---- TrailMakingPuzzle, part_007:40-51 ----
  tr_dotCount, tr_gridSize,       \* options of init; canvas.width = canvas.height = gridSize
  tr_dots,                        \* dots: sequence of [x, y, number]
  tr_genI, tr_attempts,           \* generateDots in progress: its loop variable i and attempts
  tr_placement,                   \* per placed dot: grid position used, `overlapping` at loop exit
  tr_lines,                       \* lines: sequence of [start, end, isError], ends as dot numbers
  tr_currentDot, tr_errorCount,
  tr_startTime, tr_endTime,       \* TRUE when the variable holds a Date
  tr_isDrawing,
  tr_gameStarted, tr_gameCompleted,
  tr_startDisplay,                \* startButton.style.display = 'block'
  tr_timeouts,                    \* pending error-line removals, oldest first; TRUE = scheduled before the last reset
  tr_onComplete,                  \* payloads handed to completeCallback since the last reset
  tr_sessions,                    \* sessions started on the current dot set (2 = two or more)
  tr_resultElements,              \* results elements appended to container and not removed
  \* ---- generateMaze of MazeNavigationTask, part_005:85-152 ----
  gm_grid,                        \* grid[y][x]; << >> while generateMaze is not running
  gm_passed,                      \* the grid as it was handed to ensurePathToExit; << >> before the call
  gm_pc,                          \* the loop generateMaze is in, when it is followed one iteration at a time
  gm_complexity,                  \* the argument complexity, in tenths
  gm_stack,                       \* stack of the carving loop
  gm_i,                           \* i of the random-path loop
  gm_openSet, gm_closedSet,       \* of the A* loop of ensurePathToExit
  gm_cursor,                      \* x, y of the repair loop of ensurePathToExit
  \* ---- generateSequence of NBackMemoryGame, part_006:75-95 ----
  sq_pc,                          \* the loop generateSequence is in, or "none"
  sq_seq,                         \* seq (1-based here)
  sq_i,                           \* i of the loop it is in
  \* ---- medical-records routes, AccessLog.js:71-612 ----
  sv_doctors,                     \* patient.doctors, per patient
  sv_records,                     \* MedicalRecord documents
  sv_files,                       \* files of the uploads directory
  sv_uploads,                     \* status answered to each upload request, in order
  sv_accessLog,                   \* AccessLog documents, in the order saved
  sv_request,                     \* the doctor request being handled: << >> or <<request>>
  sv_sent,                        \* record data sent to doctors, in order
  sv_answers,                     \* status answered to each doctor request, in order
  sv_cleanups,                    \* pending timeouts of lines 271 and 470, oldest first
  sv_streams,                     \* file responses res.sendFile has not finished sending
  sv_patientAnswers               \* status answered to each patient file request, in order

nbVars == <<nb_nValue, nb_sequenceLength, nb_sequence, nb_currentIndex, nb_timer,
            nb_untracked, nb_gameStarted, nb_gameCompleted, nb_score,
            nb_startDisplay, nb_canvas, nb_onComplete, nb_pressed, nb_afterReset>>

ckVars == <<ck_targetTime, ck_targetHourAngle, ck_targetMinuteAngle,
            ck_currentHourAngle, ck_currentMinuteAngle, ck_isDraggingHour,
            ck_isDraggingMinute, ck_pointerEvents, ck_submitDisabled, ck_onComplete,
            ck_controllers, ck_detached, ck_dragHand, ck_resultElements>>

mzVars == <<mz_mazeSize, mz_complexity, mz_maze, mz_playerPos, mz_exitPos,
            mz_gameStarted, mz_gameCompleted, mz_updateTimer, mz_untracked,
            mz_startDisplay, mz_resetDisplay, mz_onComplete,
            mz_now, mz_startTime, mz_endTime, mz_timeTaken>>

trVars == <<tr_dotCount, tr_gridSize, tr_dots, tr_genI, tr_attempts, tr_placement,
            tr_lines, tr_currentDot, tr_errorCount, tr_startTime, tr_endTime,
            tr_isDrawing, tr_gameStarted, tr_gameCompleted, tr_startDisplay,
            tr_timeouts, tr_onComplete, tr_sessions, tr_resultElements>>

gmVars == <<gm_grid, gm_passed, gm_pc, gm_complexity, gm_stack, gm_i,
            gm_openSet, gm_closedSet, gm_cursor>>

\* the locals of generateMaze that only its loops, followed one by one, use
gmLoops == <<gm_pc, gm_complexity, gm_stack, gm_i, gm_openSet, gm_closedSet, gm_cursor>>

sqVars == <<sq_pc, sq_seq, sq_i>>

svVars == <<sv_doctors, sv_records, sv_files, sv_uploads, sv_accessLog, sv_request,
            sv_sent, sv_answers, sv_cleanups, sv_streams, sv_patientAnswers>>

vars == <<nbVars, ckVars, mzVars, trVars, gmVars, sqVars, svVars>>

\* the controllers returned so far and the elements of their containers
ckInstances == <<ck_controllers, ck_detached>>

\* the state of the engines an NBack step does not touch
nbOthers == <<ckVars, mzVars, trVars, gmVars, sqVars, svVars>>
\* the state of the engines a Clock step does not touch
ckOthers == <<nbVars, mzVars, trVars, gmVars, sqVars, svVars>>
\* the state of the engines a Maze step does not touch
mzOthers == <<nbVars, ckVars, trVars, gmVars, sqVars, svVars>>
\* the state of the engines a Trail step does not touch
trOthers == <<nbVars, ckVars, mzVars, gmVars, sqVars, svVars>>
\* the state a step inside generateMaze does not touch
gmOthers == <<nbVars, ckVars, mzVars, trVars, sqVars, svVars>>
\* the state of the games, which a step of the server does not touch
svOthers == <<nbVars, ckVars, mzVars, trVars, gmVars, sqVars>>
\* the state a step inside generateSequence does not touch
sqOthers == <<ckVars, mzVars, trVars, gmVars, svVars>>

(***************************************************************************)
(* Bounds                                                                  *)
(***************************************************************************)
MaxNValue == 2        \* nValue ranges over 1..MaxNValue
MaxSeqLen == 5        \* sequenceLength ranges over nValue+1..MaxSeqLen
MaxTimers == 2        \* Start is not clicked while this many timeouts are pending
MaxPresses == 2       \* Match clicks counted per session
PointerDirections == 8 \* pointer positions of a drag, evenly spread round the centre
MaxMazeSize == 5      \* mazeSize ranges over 3..MaxMazeSize
MaxSeconds == 2       \* seconds the Maze wall clock advances
MaxControllers == 2   \* init calls of one engine
MaxSubmits == 1       \* Submits made on the button of an earlier container, per reset
MaxDotCount == 3      \* dotCount ranges over 1..MaxDotCount
MaxErrors == 2        \* wrong releases modelled per session
MaxGridSide == 4      \* generateMaze is followed for width, height in 2..MaxGridSide
MaxGenSize == 5       \* generateMaze is followed loop by loop for sizes 2..MaxGenSize
MaxPathWrites == 3    \* cells made PATH before the entry and the exit are forced
MaxUploads == 1       \* upload requests
MaxDoctorRequests == 2 \* doctor requests for record data
MaxPatientRequests == 1 \* patient requests for the full file of a record
MaxRemovals == 2      \* no wrong release is made while this many removals are pending

(***************************************************************************)
(* NBackMemoryGame                                                         *)
(***************************************************************************)
SHAPES == <<"square", "circle", "triangle">>

\* JS index i of a sequence
At(seq, i) == seq[i + 1]

ZeroScore == [correct |-> 0, incorrect |-> 0, missed |-> 0, total |-> 0]

\* Math.floor((length - nValue) * 0.3)
matchCount(length, n) == ((length - n) * 3) \div 10

\* the loop of lines 87-92: seq[matchPos] = seq[matchPos - nValue], in draw order
RECURSIVE injectMatches(_, _, _)
injectMatches(seq, positions, n) ==
  IF positions = <<>> THEN seq
  ELSE LET p == Head(positions)
       IN injectMatches([seq EXCEPT ![p + 1] = At(seq, p - n)], Tail(positions), n)

\* every sequence generateSequence(length) can return
generateSequence(length, n) ==
  { injectMatches(base, positions, n) :
      base \in [1..length -> {SHAPES[k] : k \in 1..3}],
      positions \in [1..matchCount(length, n) -> n..(length - 1)] }

\* generateSequence(sequenceLength) for the options of the model
GeneratedSequences ==
  [n \in 1..MaxNValue |->
     [length \in 2..MaxSeqLen |->
        IF length > n THEN generateSequence(length, n) ELSE {}]]

\* mutant: the scan stops one index early
RECURSIVE totalMatchesFrom_skipLast(_, _, _)
totalMatchesFrom_skipLast(seq, n, i) ==
  IF i >= Len(seq) - 1 THEN 0
  ELSE (IF At(seq, i) = At(seq, i - n) THEN 1 ELSE 0) + totalMatchesFrom_skipLast(seq, n, i + 1)

\* the scan of completeGame, lines 239-244
RECURSIVE totalMatchesFrom(_, _, _)
totalMatchesFrom(seq, n, i) ==
  IF i >= Len(seq) THEN 0
  ELSE (IF At(seq, i) = At(seq, i - n) THEN 1 ELSE 0) + totalMatchesFrom(seq, n, i + 1)

\* Math.round((correct / totalPossible) * 100), or 0
percentageScore(correct, totalPossible) ==
  IF totalPossible > 0 THEN (200 * correct + totalPossible) \div (2 * totalPossible) ELSE 0

NBack_pending == (IF nb_timer = "none" THEN 0 ELSE 1) + nb_untracked.blank + nb_untracked.show

\* timer = setTimeout(cb, ...): the timeout `timer` referred to stays pending
NBack_setTimer(cb, tracked, untracked) ==
  /\ nb_timer' = cb
  /\ nb_untracked' = IF tracked = "none" THEN untracked
                     ELSE [untracked EXCEPT ![tracked] = @ + 1]

\* init with the given options
NBack_init(n, length) ==
  /\ nb_nValue = n
  /\ nb_sequenceLength = length
  /\ nb_sequence = <<>>
  /\ nb_currentIndex = -1
  /\ nb_timer = "none"
  /\ nb_untracked = [blank |-> 0, show |-> 0]
  /\ nb_gameStarted = FALSE
  /\ nb_gameCompleted = FALSE
  /\ nb_score = ZeroScore
  /\ nb_startDisplay = TRUE
  /\ nb_canvas = "blank"
  /\ nb_onComplete = <<>>
  /\ nb_pressed = FALSE
  /\ nb_afterReset = FALSE

\* startGame, the click listener of startButton
NBack_startGame ==
  /\ nb_startDisplay
  /\ NBack_pending < MaxTimers
  /\ nb_currentIndex' = -1
  /\ nb_score' = ZeroScore
  /\ nb_gameStarted' = TRUE
  /\ nb_gameCompleted' = FALSE
  /\ nb_timer' = "none"                                  \* clearTimeout(timer)
  /\ nb_sequence' \in GeneratedSequences[nb_nValue][nb_sequenceLength]
  /\ nb_startDisplay' = FALSE
  /\ nb_canvas' = "blank"
  /\ nb_untracked' = [nb_untracked EXCEPT !.show = @ + 1] \* setTimeout(showNextShape, 1000), id dropped
  /\ nb_onComplete' = <<>>
  /\ nb_pressed' = FALSE
  /\ nb_afterReset' = FALSE
  /\ UNCHANGED <<nb_nValue, nb_sequenceLength>>
  /\ UNCHANGED nbOthers

\* reset, the controller's method
NBack_reset ==
  /\ nb_timer' = "none"                                  \* clearTimeout(timer)
  /\ nb_canvas' = "blank"
  /\ nb_startDisplay' = TRUE
  /\ nb_gameStarted' = FALSE
  /\ nb_gameCompleted' = FALSE
  /\ nb_currentIndex' = -1
  /\ nb_score' = ZeroScore
  /\ nb_onComplete' = <<>>
  /\ nb_pressed' = FALSE
  /\ nb_afterReset' = TRUE
  /\ UNCHANGED <<nb_nValue, nb_sequenceLength, nb_sequence, nb_untracked>>
  /\ UNCHANGED nbOthers

\* mutant: the guard forgets gameStarted
handleMatchClick_accepts_noStarted ==
  ~nb_gameCompleted /\ nb_currentIndex >= nb_nValue

\* the guard of handleMatchClick, line 183
handleMatchClick_accepts ==
  nb_gameStarted /\ ~nb_gameCompleted /\ nb_currentIndex >= nb_nValue

\* handleMatchClick, the click listener of matchButton
NBack_handleMatchClick ==
  /\ nb_score.correct + nb_score.incorrect < MaxPresses
  /\ IF handleMatchClick_accepts
     THEN LET isMatch == At(nb_sequence, nb_currentIndex)
                           = At(nb_sequence, nb_currentIndex - nb_nValue)
          IN /\ nb_score' = IF isMatch THEN [nb_score EXCEPT !.correct = @ + 1]
                                       ELSE [nb_score EXCEPT !.incorrect = @ + 1]
             /\ nb_pressed' = TRUE
     ELSE UNCHANGED <<nb_score, nb_pressed>>
  /\ UNCHANGED <<nb_nValue, nb_sequenceLength, nb_sequence, nb_currentIndex, nb_timer,
                 nb_untracked, nb_gameStarted, nb_gameCompleted, nb_startDisplay,
                 nb_canvas, nb_onComplete, nb_afterReset>>
  /\ UNCHANGED nbOthers

\* the payload of completeGame, lines 239-256 and 288-294
completeGame_payload(seq, n, score) ==
  LET totalMatches == totalMatchesFrom(seq, n, n)
  IN [correct |-> score.correct,
      incorrect |-> score.incorrect,
      missed |-> totalMatches - score.correct,
      total |-> totalMatches,
      percentageScore |-> percentageScore(score.correct, totalMatches)]

\* showNextShape run as a timeout callback; `tracked` and `untracked` are the
\* pending timeouts left once the firing one is taken out
NBack_runShowNextShape(tracked, untracked) ==
  /\ nb_currentIndex' = nb_currentIndex + 1
  /\ IF nb_currentIndex + 1 >= Len(nb_sequence)
     THEN \* completeGame
          LET payload == completeGame_payload(nb_sequence, nb_nValue, nb_score)
          IN /\ nb_gameCompleted' = TRUE
             /\ nb_timer' = "none"                       \* clearTimeout(timer)
             /\ nb_untracked' = untracked
             /\ nb_score' = [nb_score EXCEPT !.missed = payload.missed]
             /\ nb_startDisplay' = TRUE
             /\ nb_onComplete' = Append(nb_onComplete, payload)
             /\ UNCHANGED nb_canvas
     ELSE /\ nb_canvas' = At(nb_sequence, nb_currentIndex + 1)
          /\ nb_score' =
               IF nb_currentIndex + 1 >= nb_nValue
                  /\ At(nb_sequence, nb_currentIndex + 1)
                       = At(nb_sequence, nb_currentIndex + 1 - nb_nValue)
               THEN [nb_score EXCEPT !.total = @ + 1]
               ELSE nb_score
          /\ NBack_setTimer("blank", tracked, untracked)
          /\ UNCHANGED <<nb_gameCompleted, nb_startDisplay, nb_onComplete>>
  /\ UNCHANGED <<nb_nValue, nb_sequenceLength, nb_sequence, nb_gameStarted,
                 nb_pressed, nb_afterReset>>
  /\ UNCHANGED nbOthers

\* a pending timeout whose callback is showNextShape fires
NBack_showNextShape ==
  \/ /\ nb_timer = "show"
     /\ NBack_runShowNextShape("none", nb_untracked)
  \/ /\ nb_untracked.show > 0
     /\ NBack_runShowNextShape(nb_timer, [nb_untracked EXCEPT !.show = @ - 1])

\* the arrow function of lines 168-173 run as a timeout callback
NBack_runBlank(tracked, untracked) ==
  /\ nb_canvas' = "blank"
  /\ NBack_setTimer("show", tracked, untracked)
  /\ UNCHANGED <<nb_nValue, nb_sequenceLength, nb_sequence, nb_currentIndex,
                 nb_gameStarted, nb_gameCompleted, nb_score, nb_startDisplay,
                 nb_onComplete, nb_pressed, nb_afterReset>>
  /\ UNCHANGED nbOthers

\* a pending timeout whose callback is the arrow function of line 168 fires
NBack_blankTimeout ==
  \/ /\ nb_timer = "blank"
     /\ NBack_runBlank("none", nb_untracked)
  \/ /\ nb_untracked.blank > 0
     /\ NBack_runBlank(nb_timer, [nb_untracked EXCEPT !.blank = @ - 1])

\* the indices of seq that generateSequence(length) writes and reads: the
\* pushes of lines 79-82, then seq[matchPos] and seq[matchPos - nValue] for
\* every matchPos line 89 can draw
generateSequence_indices(length, n) ==
  (0..(length - 1))
    \cup (IF matchCount(length, n) > 0
          THEN UNION { {matchPos, matchPos - n} :
                         matchPos \in { n + k : k \in 0..(length - n - 1) } }
          ELSE {})

\* the indices of sequence that showNextShape would read, lines 152-165
showNextShape_indices ==
  LET i == nb_currentIndex + 1
  IN IF i >= Len(nb_sequence) THEN {}
     ELSE {i} \cup (IF i >= nb_nValue THEN {i - nb_nValue} ELSE {})

\* mutant: the guard forgets currentIndex < nValue
handleMatchClick_indices_noLag ==
  IF nb_gameStarted /\ ~nb_gameCompleted
  THEN {nb_currentIndex, nb_currentIndex - nb_nValue}
  ELSE {}

\* the indices of sequence that handleMatchClick would read, lines 183-186
handleMatchClick_indices ==
  IF handleMatchClick_accepts
  THEN {nb_currentIndex, nb_currentIndex - nb_nValue}
  ELSE {}

\* the indices of sequence that the scan of completeGame reads, lines 239-244
completeGame_indices ==
  UNION { {i, i - nb_nValue} : i \in nb_nValue..(Len(nb_sequence) - 1) }

NBack_Next ==
  \/ NBack_startGame
  \/ NBack_reset
  \/ NBack_handleMatchClick
  \/ NBack_showNextShape
  \/ NBack_blankTimeout

(***************************************************************************)
(* The part of the DOM the engines search: an element is its variable or   *)
(* role, its tag and its element children in document order.  A container  *)
(* is empty when init is given it.                                         *)
(***************************************************************************)
element(name, tag, children) == [name |-> name, tag |-> tag, children |-> children]

\* querySelector('div:last-child') below a parent whose element children are
\* `siblings`, from sibling k on: the path of child indices to the first
\* element in document order that is a div and the last child of its parent,
\* << >> for null
RECURSIVE querySelector_divLastChild(_, _)
querySelector_divLastChild(siblings, k) ==
  IF k > Len(siblings) THEN <<>>
  ELSE IF siblings[k].tag = "div" /\ k = Len(siblings) THEN <<k>>
  ELSE LET inner == querySelector_divLastChild(siblings[k].children, 1)
       IN IF inner # <<>> THEN <<k>> \o inner
          ELSE querySelector_divLastChild(siblings, k + 1)

\* the element at `path`
RECURSIVE elementAt(_, _)
elementAt(siblings, path) ==
  IF Len(path) = 1 THEN siblings[path[1]]
  ELSE elementAt(siblings[path[1]].children, Tail(path))

\* element.remove() for the element at `path`
RECURSIVE removeElement(_, _)
removeElement(siblings, path) ==
  IF Len(path) = 1
  THEN SubSeq(siblings, 1, path[1] - 1) \o SubSeq(siblings, path[1] + 1, Len(siblings))
  ELSE [k \in 1..Len(siblings) |->
          IF k = path[1]
          THEN element(siblings[k].name, siblings[k].tag,
                       removeElement(siblings[k].children, Tail(path)))
          ELSE siblings[k]]

(***************************************************************************)
(* ClockDrawingGame.  Angles are integers in half degrees (305 deg = 610), *)
(* which represents every target of a whole-minute time exactly.  The      *)
(* score is computed in exact rational arithmetic; IEEE doubles can differ *)
(* from it only where 0.6*hourAccuracy + 0.4*minuteAccuracy is exactly     *)
(* k + 1/2.                                                                *)
(***************************************************************************)
Digits == <<"0", "1", "2", "3", "4", "5", "6", "7", "8", "9">>

digitValue(ch) == (CHOOSE k \in 1..10 : Digits[k] = ch) - 1

\* parseInt(str, 10) of a string of decimal digits
RECURSIVE parseInt(_)
parseInt(str) ==
  IF str = <<>> THEN 0
  ELSE 10 * parseInt(SubSeq(str, 1, Len(str) - 1)) + digitValue(str[Len(str)])

\* parseTime: timeStr.split(':'), then parseInt of both parts
parseTime(timeStr) ==
  LET colon == CHOOSE k \in 1..Len(timeStr) : timeStr[k] = ":"
  IN [hour |-> parseInt(SubSeq(timeStr, 1, colon - 1)),
      minute |-> parseInt(SubSeq(timeStr, colon + 1, Len(timeStr)))]

\* calculateAngle(unit, isHour) in half degrees; unit60 is unit * 60, which is
\* an integer for the hour + minute/60 that init passes
calculateAngle(unit60, isHour) ==
  IF isHour THEN (unit60 % 720) - 180
  ELSE (unit60 \div 5) - 180

\* the JavaScript remainder a % m: it has the sign of a
jsRem(a, m) == IF a >= 0 THEN a % m ELSE -((-a) % m)

Abs(x) == IF x < 0 THEN -x ELSE x
Max(a, b) == IF a >= b THEN a ELSE b

\* Math.abs(((current - target + 180) % 360) - 180), in half degrees
angleDiff(current, target) == Abs(jsRem(current - target + 360, 720) - 360)

\* Math.max(0, 100 - diff / 1.8) as a multiple of 1/18
accuracy18(diff) == Max(0, 1800 - 5 * diff)

\* calculateScore on given angles
calculateScoreOf(curHour, tgtHour, curMinute, tgtMinute) ==
  LET hourAccuracy == accuracy18(angleDiff(curHour, tgtHour))
      minuteAccuracy == accuracy18(angleDiff(curMinute, tgtMinute))
  IN (6 * hourAccuracy + 4 * minuteAccuracy + 90) \div 180

\* calculateScore reads the module state
calculateScore ==
  calculateScoreOf(ck_currentHourAngle, ck_targetHourAngle,
                   ck_currentMinuteAngle, ck_targetMinuteAngle)

\* the angle updateHandPosition derives from Math.atan2(deltaY, deltaX) in
\* half degrees (atan2 in (-360, 360])
dragAngle(atan2) ==
  LET angle == atan2 + 180
  IN IF angle < 0 THEN angle + 720 ELSE angle

\* the atan2 value of a pointer lying in clock direction dir (0 = 12 o'clock,
\* clockwise, in [0, 720))
atan2Of(dir) == IF dir - 180 <= 360 THEN dir - 180 ELSE dir - 900

\* the direction the hands of a clock showing hour:minute point in
hourDirection(t) == (60 * t.hour + t.minute) % 720
minuteDirection(t) == 12 * t.minute

TargetTimes ==
  { <<"1", "0", ":", "1", "0">>, <<"1", "0", ":", "5", "5">>,
    <<"0", "0", ":", "0", "0">>, <<"0", "3", ":", "3", "0">>,
    <<"1", "2", ":", "0", "0">>, <<"2", "3", ":", "5", "9">>,
    <<"0", "6", ":", "1", "5">> }

\* the atan2 values of the pointer positions of a drag: a ring of
\* PointerDirections positions, the positions on the true hand directions of
\* the target time, and the positions on the stored target angles
PointerAtan2 ==
  LET t == parseTime(ck_targetTime)
  IN { (720 * k) \div PointerDirections - 360 : k \in 1..PointerDirections }
       \cup { atan2Of(hourDirection(t)), atan2Of(minuteDirection(t)) }
       \cup { atan2Of(ck_targetHourAngle % 720), atan2Of(ck_targetMinuteAngle % 720) }

\* what createClockSVG and createControls append to the container, lines
\* 121-206 and 328-341; of the svg children the 12 markers and the numbers,
\* none of them a div, are left out
Clock_created ==
  << element("svg", "svg", <<element("clockFace", "circle", <<>>),
                             element("hourHand", "line", <<>>),
                             element("minuteHand", "line", <<>>),
                             element("centerDot", "circle", <<>>)>>),
     element("instructions", "div",
             <<element("p", "p", <<element("span", "span", <<>>)>>),
               element("p", "p", <<>>)>>),
     element("submitButton", "button", <<>>) >>

\* init with the given targetTime
Clock_init(targetTime) ==
  LET t == parseTime(targetTime)
  IN /\ ck_targetTime = targetTime
     /\ ck_targetHourAngle = calculateAngle(60 * t.hour + t.minute, TRUE)
     /\ ck_targetMinuteAngle = calculateAngle(60 * t.minute, FALSE)
     /\ ck_currentHourAngle = 0
     /\ ck_currentMinuteAngle = 0
     /\ ck_isDraggingHour = FALSE
     /\ ck_isDraggingMinute = FALSE
     /\ ck_dragHand = "none"
     /\ ck_pointerEvents = "auto"
     /\ ck_submitDisabled = FALSE
     /\ ck_onComplete = <<>>
     /\ ck_controllers = <<targetTime>>
     /\ ck_detached = <<>>
     /\ ck_resultElements = 0

\* the element children of container, in document order: the elements of
\* init, then the given number of result elements of handleSubmit, lines
\* 351-371
Clock_container(resultElements) ==
  LET resultElement ==
        element("resultElement", "div", <<element("p", "p", <<>>), element("p", "p", <<>>)>>)
  IN Clock_created \o [k \in 1..resultElements |-> resultElement]

\* lines 432-435 of reset() for a container with the given number of result
\* elements: whether resultElement is null, so that line 434 throws a
\* TypeError, and the number of result elements left otherwise
Clock_removeResult ==
  [resultElements \in 0..(MaxSubmits + 1) |->
     LET container == Clock_container(resultElements)
         resultElement == querySelector_divLastChild(container, 1)
     IN [throws |-> resultElement = <<>>,
         left |-> IF resultElement = <<>> THEN resultElements
                  ELSE IF elementAt(container, resultElement).name
                            \notin {"submitButton", "instructions"}
                       THEN Len(removeElement(container, resultElement))
                              - Len(Clock_created)
                       ELSE resultElements]]

\* reset() throws at line 434, before lines 437-441
Clock_resetThrows == Clock_removeResult[ck_resultElements].throws

\* the mousedown / touchstart listener of hourHand; a hand with
\* pointer-events none is not the target of pointer events
Clock_hourHandDown ==
  /\ ck_pointerEvents = "auto"
  /\ ck_isDraggingHour' = TRUE
  /\ UNCHANGED <<ck_targetTime, ck_targetHourAngle, ck_targetMinuteAngle,
                 ck_currentHourAngle, ck_currentMinuteAngle, ck_isDraggingMinute,
                 ck_pointerEvents, ck_submitDisabled, ck_onComplete>>
  /\ UNCHANGED ckInstances
  /\ ck_dragHand' = "hour"
  /\ UNCHANGED ck_resultElements
  /\ UNCHANGED ckOthers

\* the mousedown / touchstart listener of minuteHand
Clock_minuteHandDown ==
  /\ ck_pointerEvents = "auto"
  /\ ck_isDraggingMinute' = TRUE
  /\ UNCHANGED <<ck_targetTime, ck_targetHourAngle, ck_targetMinuteAngle,
                 ck_currentHourAngle, ck_currentMinuteAngle, ck_isDraggingHour,
                 ck_pointerEvents, ck_submitDisabled, ck_onComplete>>
  /\ UNCHANGED ckInstances
  /\ ck_dragHand' = "minute"
  /\ UNCHANGED ck_resultElements
  /\ UNCHANGED ckOthers

\* the mouseup / touchend listener of document
Clock_mouseUp ==
  /\ ck_isDraggingHour' = FALSE
  /\ ck_isDraggingMinute' = FALSE
  /\ UNCHANGED <<ck_targetTime, ck_targetHourAngle, ck_targetMinuteAngle,
                 ck_currentHourAngle, ck_currentMinuteAngle,
                 ck_pointerEvents, ck_submitDisabled, ck_onComplete>>
  /\ UNCHANGED ckInstances
  /\ ck_dragHand' = "none"
  /\ UNCHANGED ck_resultElements
  /\ UNCHANGED ckOthers

\* updateHandPosition for a pointer whose atan2 is given
updateHandPosition(atan2) ==
  LET angle == dragAngle(atan2)
  IN IF ck_isDraggingHour
     THEN ck_currentHourAngle' = angle /\ UNCHANGED ck_currentMinuteAngle
     ELSE IF ck_isDraggingMinute
          THEN ck_currentMinuteAngle' = angle /\ UNCHANGED ck_currentHourAngle
          ELSE UNCHANGED <<ck_currentHourAngle, ck_currentMinuteAngle>>

\* handleMouseMove / handleTouchMove, the mousemove / touchmove listeners of document
Clock_handleMouseMove ==
  /\ \E atan2 \in PointerAtan2 :
       IF ~ck_isDraggingHour /\ ~ck_isDraggingMinute
       THEN UNCHANGED <<ck_currentHourAngle, ck_currentMinuteAngle>>
       ELSE updateHandPosition(atan2)
  /\ UNCHANGED <<ck_targetTime, ck_targetHourAngle, ck_targetMinuteAngle,
                 ck_isDraggingHour, ck_isDraggingMinute,
                 ck_pointerEvents, ck_submitDisabled, ck_onComplete>>
  /\ UNCHANGED ckInstances
  /\ UNCHANGED ck_dragHand
  /\ UNCHANGED ck_resultElements
  /\ UNCHANGED ckOthers

\* handleSubmit, the click listener of submitButton; a disabled button gets no click
Clock_handleSubmit ==
  /\ ~ck_submitDisabled
  /\ ck_pointerEvents' = "none"
  /\ ck_submitDisabled' = TRUE
  /\ ck_onComplete' = Append(ck_onComplete,
                             [score |-> calculateScore,
                              hourAngle |-> ck_currentHourAngle,
                              minuteAngle |-> ck_currentMinuteAngle])
  /\ UNCHANGED <<ck_targetTime, ck_targetHourAngle, ck_targetMinuteAngle,
                 ck_currentHourAngle, ck_currentMinuteAngle,
                 ck_isDraggingHour, ck_isDraggingMinute>>
  /\ UNCHANGED ckInstances
  /\ UNCHANGED ck_dragHand
  /\ ck_resultElements' = ck_resultElements + 1
  /\ UNCHANGED ckOthers

\* reset, the controller's method
Clock_reset ==
  /\ ck_currentHourAngle' = 0
  /\ ck_currentMinuteAngle' = 0
  /\ IF Clock_resetThrows
     THEN UNCHANGED <<ck_resultElements, ck_pointerEvents, ck_submitDisabled>>
     ELSE /\ ck_resultElements' = Clock_removeResult[ck_resultElements].left
          /\ ck_pointerEvents' = "auto"
          /\ ck_submitDisabled' = FALSE
  /\ ck_onComplete' = <<>>
  /\ UNCHANGED <<ck_targetTime, ck_targetHourAngle, ck_targetMinuteAngle,
                 ck_isDraggingHour, ck_isDraggingMinute>>
  /\ UNCHANGED ckInstances
  /\ UNCHANGED ck_dragHand
  /\ UNCHANGED ckOthers

\* a further init call with the given targetTime: the module variables are
\* assigned again, createClockSVG and createControls make new hands and a new
\* Submit button in the new container; the elements of the earlier container
\* stay in the page with their listeners.  currentHourAngle, currentMinuteAngle
\* and the dragging flags are not assigned.
Clock_initAgain ==
  /\ Len(ck_controllers) < MaxControllers
  /\ \E targetTime \in TargetTimes :
       LET t == parseTime(targetTime)
       IN /\ ck_targetTime' = targetTime
          /\ ck_targetHourAngle' = calculateAngle(60 * t.hour + t.minute, TRUE)
          /\ ck_targetMinuteAngle' = calculateAngle(60 * t.minute, FALSE)
          /\ ck_controllers' = Append(ck_controllers, targetTime)
  /\ ck_detached' = Append(ck_detached, [pointerEvents |-> ck_pointerEvents,
                                         submitDisabled |-> ck_submitDisabled])
  /\ ck_pointerEvents' = "auto"
  /\ ck_submitDisabled' = FALSE
  /\ ck_onComplete' = <<>>
  /\ UNCHANGED <<ck_currentHourAngle, ck_currentMinuteAngle, ck_isDraggingHour,
                 ck_isDraggingMinute>>
  /\ UNCHANGED ck_dragHand
  /\ ck_resultElements' = 0
  /\ UNCHANGED ckOthers

\* the mousedown / touchstart listeners of the hands of an earlier container
Clock_detachedHandDown ==
  /\ \E k \in 1..Len(ck_detached) : ck_detached[k].pointerEvents = "auto"
  /\ \/ ck_isDraggingHour' = TRUE /\ UNCHANGED ck_isDraggingMinute /\ ck_dragHand' = "hour"
     \/ ck_isDraggingMinute' = TRUE /\ UNCHANGED ck_isDraggingHour /\ ck_dragHand' = "minute"
  /\ UNCHANGED <<ck_targetTime, ck_targetHourAngle, ck_targetMinuteAngle,
                 ck_currentHourAngle, ck_currentMinuteAngle,
                 ck_pointerEvents, ck_submitDisabled, ck_onComplete>>
  /\ UNCHANGED ckInstances
  /\ UNCHANGED ck_resultElements
  /\ UNCHANGED ckOthers

\* handleSubmit run by the click listener of the Submit button of an earlier
\* container: it works on the module variables, which hold the newest elements
Clock_detachedSubmit ==
  /\ \E k \in 1..Len(ck_detached) : ~ck_detached[k].submitDisabled
  /\ ck_pointerEvents' = "none"
  /\ ck_submitDisabled' = TRUE
  /\ ck_onComplete' = Append(ck_onComplete,
                             [score |-> calculateScore,
                              hourAngle |-> ck_currentHourAngle,
                              minuteAngle |-> ck_currentMinuteAngle])
  /\ Len(ck_onComplete) < MaxSubmits
  /\ UNCHANGED <<ck_targetTime, ck_targetHourAngle, ck_targetMinuteAngle,
                 ck_currentHourAngle, ck_currentMinuteAngle,
                 ck_isDraggingHour, ck_isDraggingMinute>>
  /\ UNCHANGED ckInstances
  /\ UNCHANGED ck_dragHand
  /\ ck_resultElements' = ck_resultElements + 1
  /\ UNCHANGED ckOthers

Clock_Next ==
  \/ Clock_hourHandDown
  \/ Clock_minuteHandDown
  \/ Clock_mouseUp
  \/ Clock_handleMouseMove
  \/ Clock_handleSubmit
  \/ Clock_reset

\* the steps of a page that calls init more than once
ClockControllers_Next ==
  \/ Clock_Next
  \/ Clock_initAgain
  \/ Clock_detachedHandDown
  \/ Clock_detachedSubmit

(***************************************************************************)
(* MazeNavigationTask.  generateMaze draws random numbers in its loops;    *)
(* the operator generateMaze is the set of the grids it can return, one    *)
(* for every outcome of the draws, built by following its loops.           *)
(***************************************************************************)
WALL == 1
PATH == 0

DIRECTIONS == << [x |-> 0, y |-> -1], [x |-> 1, y |-> 0],
                 [x |-> 0, y |-> 1], [x |-> -1, y |-> 0] >>

\* complexity values of init, in tenths
Complexities == {5, 7, 10}

\* Array(height).fill().map(() => Array(width).fill(WALL))
wallGrid(width, height) == [y \in 0..(height - 1) |-> [x \in 0..(width - 1) |-> WALL]]

gridHeight(grid) == Cardinality(DOMAIN grid)
gridWidth(grid) == Cardinality(DOMAIN grid[0])

\* grid[y][x] = v
setCell(grid, x, y, v) ==
  [row \in DOMAIN grid |->
     [col \in DOMAIN grid[row] |-> IF row = y /\ col = x THEN v ELSE grid[row][col]]]

\* Math.floor((1 - complexity) * width * height * 0.1)
pathCount(width, height, complexity10) == ((10 - complexity10) * width * height) \div 100

\* the unvisited neighbours of the carving loop, lines 102-110
carveNeighbors(grid, width, height, current) ==
  { [x |-> current.x + DIRECTIONS[d].x * 2, y |-> current.y + DIRECTIONS[d].y * 2,
     dx |-> DIRECTIONS[d].x, dy |-> DIRECTIONS[d].y] : d \in
      { d \in 1..4 :
          LET nx == current.x + DIRECTIONS[d].x * 2
              ny == current.y + DIRECTIONS[d].y * 2
          IN nx >= 0 /\ nx < width /\ ny >= 0 /\ ny < height /\ grid[ny][nx] = WALL } }

\* mutant: the entry cell is not opened
forceEntryExit_noEntry(grid, width, height) ==
  setCell(grid, width - 2, height - 2, PATH)

\* lines 136-146: the entry (1,1) and the exit (width-2, height-2) are made PATH
forceEntryExit(grid, width, height) ==
  setCell(setCell(grid, 1, 1, PATH), width - 2, height - 2, PATH)

\* index of the first node of openSet with the lowest f, lines 171-179
RECURSIVE lowestF(_, _, _)
lowestF(openSet, i, best) ==
  IF i > Len(openSet) THEN best
  ELSE lowestF(openSet, i + 1, IF openSet[i].f < openSet[best].f THEN i ELSE best)

removeAt(seq, i) == SubSeq(seq, 1, i - 1) \o SubSeq(seq, i + 1, Len(seq))

\* the neighbour loop of lines 195-231 from direction d on
RECURSIVE relaxNeighbors(_, _, _, _, _, _)
relaxNeighbors(grid, openSet, closedSet, current, end, d) ==
  IF d > 4 THEN openSet
  ELSE
    LET nx == current.x + DIRECTIONS[d].x
        ny == current.y + DIRECTIONS[d].y
        g == current.g + 1
        h == Abs(nx - end.x) + Abs(ny - end.y)
        f == g + h
        skip == \/ nx < 0 \/ nx >= gridWidth(grid) \/ ny < 0 \/ ny >= gridHeight(grid)
                \/ grid[ny][nx] = WALL
                \/ <<nx, ny>> \in closedSet
        inOpen == { i \in 1..Len(openSet) : openSet[i].x = nx /\ openSet[i].y = ny }
        next ==
          IF skip THEN openSet
          ELSE IF inOpen # {}
               THEN LET i == CHOOSE j \in inOpen : \A k \in inOpen : j <= k
                    IN IF g < openSet[i].g
                       THEN [openSet EXCEPT ![i].g = g, ![i].f = f]
                       ELSE openSet
               ELSE Append(openSet, [x |-> nx, y |-> ny, g |-> g, h |-> h, f |-> f])
    IN relaxNeighbors(grid, next, closedSet, current, end, d + 1)

\* the A* loop of lines 169-232: TRUE when it returns at line 191
RECURSIVE aStarReaches(_, _, _, _)
aStarReaches(grid, openSet, closedSet, end) ==
  IF openSet = <<>> THEN FALSE
  ELSE
    LET currentIndex == lowestF(openSet, 2, 1)
        current == openSet[currentIndex]
        rest == removeAt(openSet, currentIndex)
        closed == closedSet \cup {<<current.x, current.y>>}
    IN IF current.x = end.x /\ current.y = end.y THEN TRUE
       ELSE aStarReaches(grid, relaxNeighbors(grid, rest, closed, current, end, 1),
                         closed, end)

\* the repair loop of lines 235-246
RECURSIVE carveCorridor(_, _, _, _)
carveCorridor(grid, x, y, start) ==
  IF x = start.x /\ y = start.y THEN grid
  ELSE LET carved == setCell(grid, x, y, PATH)
       IN IF x > start.x THEN carveCorridor(carved, x - 1, y, start)
          ELSE IF x < start.x THEN carveCorridor(carved, x + 1, y, start)
          ELSE IF y > start.y THEN carveCorridor(carved, x, y - 1, start)
          ELSE carveCorridor(carved, x, y + 1, start)

\* mutant: the corridor is carved whether or not a path exists
ensurePathToExit_alwaysCarve(grid, start, end) ==
  carveCorridor(grid, end.x, end.y, start)

\* ensurePathToExit: the grid it leaves
ensurePathToExit(grid, start, end) ==
  IF aStarReaches(grid, <<[x |-> start.x, y |-> start.y, g |-> 0, h |-> 0, f |-> 0]>>,
                  {}, end)
  THEN grid
  ELSE carveCorridor(grid, end.x, end.y, start)

\* lines 117-118: the connecting cell and the chosen neighbour are made PATH
carvePassage(grid, current, next) ==
  LET connected == setCell(grid, current.x + next.dx, current.y + next.dy, PATH)
  IN setCell(connected, next.x, next.y, PATH)

\* the carving loop of lines 98-126 from a given grid and stack: the grids it
\* can end with
RECURSIVE carveLoop(_, _, _, _)
carveLoop(grid, stack, width, height) ==
  IF stack = <<>> THEN {grid}
  ELSE
    LET current == stack[Len(stack)]
        neighbors == carveNeighbors(grid, width, height, current)
    IN IF neighbors # {}
       THEN UNION { carveLoop(carvePassage(grid, current, next),
                              Append(stack, [x |-> next.x, y |-> next.y]),
                              width, height) : next \in neighbors }
       ELSE carveLoop(grid, SubSeq(stack, 1, Len(stack) - 1), width, height)

\* lines 87-126: the grids the carving loop can leave, over every start cell
carvedGrids(width, height) ==
  UNION { carveLoop(setCell(wallGrid(width, height), startX, startY, PATH),
                    <<[x |-> startX, y |-> startY]>>, width, height) :
            startX \in { 2 * k : k \in 0..((width \div 2) - 1) },
            startY \in { 2 * k : k \in 0..((height \div 2) - 1) } }

\* the random-path loop of lines 130-134 with `count` iterations left
RECURSIVE addRandomPaths(_, _, _, _)
addRandomPaths(grids, count, width, height) ==
  IF count <= 0 THEN grids
  ELSE addRandomPaths({ setCell(grid, x, y, PATH) :
                          grid \in grids, x \in 1..(width - 2), y \in 1..(height - 2) },
                      count - 1, width, height)

\* every grid generateMaze(width, height, complexity) can return
generateMaze(width, height, complexity10) ==
  { ensurePathToExit(forceEntryExit(grid, width, height),
                     [x |-> 1, y |-> 1], [x |-> width - 2, y |-> height - 2]) :
      grid \in addRandomPaths(carvedGrids(width, height),
                              pathCount(width, height, complexity10), width, height) }

\* generateMaze(mazeSize, mazeSize, complexity) for the options of the model
GeneratedMazes ==
  [size \in 3..MaxMazeSize |->
     [complexity10 \in Complexities |-> generateMaze(size, size, complexity10)]]

\* one second in the milliseconds of Date, lines 368 and 375
Second == 1000

\* init with the given options; startTime and endTime are declared without a
\* value at line 46
Maze_init(size, complexity10) ==
  /\ mz_mazeSize = size
  /\ mz_complexity = complexity10
  /\ mz_maze = <<>>
  /\ mz_playerPos = [x |-> 0, y |-> 0]
  /\ mz_exitPos = [x |-> 0, y |-> 0]
  /\ mz_gameStarted = FALSE
  /\ mz_gameCompleted = FALSE
  /\ mz_updateTimer = FALSE
  /\ mz_untracked = 0
  /\ mz_startDisplay = TRUE
  /\ mz_resetDisplay = FALSE
  /\ mz_onComplete = 0
  /\ mz_now = 0
  /\ mz_startTime = <<>>
  /\ mz_endTime = <<>>
  /\ mz_timeTaken = <<>>

\* the wall clock read by new Date() advances; it is read at whole seconds
Maze_timePasses ==
  /\ mz_now < MaxSeconds * Second
  /\ mz_now' = mz_now + Second
  /\ UNCHANGED <<mz_mazeSize, mz_complexity, mz_maze, mz_playerPos, mz_exitPos,
                 mz_gameStarted, mz_gameCompleted, mz_updateTimer, mz_untracked,
                 mz_startDisplay, mz_resetDisplay, mz_onComplete,
                 mz_startTime, mz_endTime, mz_timeTaken>>
  /\ UNCHANGED mzOthers

\* startGame, the click listener of startButton; generateMaze also sets
\* playerPos and exitPos, and updateTime at line 529 schedules the first tick
Maze_startGame ==
  /\ mz_startDisplay
  /\ mz_maze' \in GeneratedMazes[mz_mazeSize][mz_complexity]
  /\ mz_playerPos' = [x |-> 1, y |-> 1]
  /\ mz_exitPos' = [x |-> mz_mazeSize - 2, y |-> mz_mazeSize - 2]
  /\ mz_gameStarted' = TRUE
  /\ mz_gameCompleted' = FALSE
  /\ mz_startTime' = <<mz_now>>                                \* startTime = new Date()
  /\ mz_startDisplay' = FALSE
  /\ mz_resetDisplay' = FALSE
  /\ mz_updateTimer' = TRUE
  /\ mz_untracked' = mz_untracked + (IF mz_updateTimer THEN 1 ELSE 0)
  /\ mz_onComplete' = 0
  /\ mz_timeTaken' = <<>>
  /\ UNCHANGED <<mz_mazeSize, mz_complexity, mz_now, mz_endTime>>
  /\ UNCHANGED mzOthers

\* mutant: the target cell is not tested for WALL
movePlayer_throughWalls(dx, dy) ==
  LET newX == mz_playerPos.x + dx
      newY == mz_playerPos.y + dy
  IN /\ IF ~mz_gameStarted \/ mz_gameCompleted
        THEN UNCHANGED <<mz_playerPos, mz_gameCompleted, mz_updateTimer,
                         mz_resetDisplay, mz_onComplete, mz_endTime, mz_timeTaken>>
        ELSE IF /\ newX >= 0 /\ newX < gridWidth(mz_maze)
                /\ newY >= 0 /\ newY < gridHeight(mz_maze)
             THEN /\ mz_playerPos' = [x |-> newX, y |-> newY]
                  /\ UNCHANGED <<mz_gameCompleted, mz_updateTimer, mz_resetDisplay,
                                 mz_onComplete, mz_endTime, mz_timeTaken>>
             ELSE UNCHANGED <<mz_playerPos, mz_gameCompleted, mz_updateTimer,
                              mz_resetDisplay, mz_onComplete, mz_endTime, mz_timeTaken>>
     /\ UNCHANGED <<mz_mazeSize, mz_complexity, mz_maze, mz_exitPos, mz_gameStarted,
                    mz_untracked, mz_startDisplay, mz_now, mz_startTime>>
     /\ UNCHANGED mzOthers

\* mutant: the guard of line 310 is missing
movePlayer_anyState(dx, dy) ==
  LET newX == mz_playerPos.x + dx
      newY == mz_playerPos.y + dy
  IN /\ IF /\ mz_maze # <<>>
           /\ newX >= 0 /\ newX < gridWidth(mz_maze)
           /\ newY >= 0 /\ newY < gridHeight(mz_maze)
           /\ mz_maze[newY][newX] # WALL
        THEN /\ mz_playerPos' = [x |-> newX, y |-> newY]
             /\ UNCHANGED <<mz_gameCompleted, mz_updateTimer, mz_resetDisplay,
                            mz_onComplete, mz_endTime, mz_timeTaken>>
        ELSE UNCHANGED <<mz_playerPos, mz_gameCompleted, mz_updateTimer,
                         mz_resetDisplay, mz_onComplete, mz_endTime, mz_timeTaken>>
     /\ UNCHANGED <<mz_mazeSize, mz_complexity, mz_maze, mz_exitPos, mz_gameStarted,
                    mz_untracked, mz_startDisplay, mz_now, mz_startTime>>
     /\ UNCHANGED mzOthers

\* movePlayer(dx, dy); reaching the exit runs completeGame, lines 381-402
movePlayer(dx, dy) ==
  LET newX == mz_playerPos.x + dx
      newY == mz_playerPos.y + dy
  IN /\ IF ~mz_gameStarted \/ mz_gameCompleted
        THEN UNCHANGED <<mz_playerPos, mz_gameCompleted, mz_updateTimer,
                         mz_resetDisplay, mz_onComplete, mz_endTime, mz_timeTaken>>
        ELSE IF /\ newX >= 0 /\ newX < gridWidth(mz_maze)
                /\ newY >= 0 /\ newY < gridHeight(mz_maze)
                /\ mz_maze[newY][newX] # WALL
             THEN /\ mz_playerPos' = [x |-> newX, y |-> newY]
                  /\ IF newX = mz_exitPos.x /\ newY = mz_exitPos.y
                     THEN /\ mz_endTime' = <<mz_now>>              \* endTime = new Date()
                          /\ mz_gameCompleted' = TRUE
                          /\ mz_updateTimer' = FALSE          \* clearTimeout(updateTimer)
                          /\ mz_resetDisplay' = TRUE
                          /\ mz_onComplete' = mz_onComplete + 1
                          \* timeTaken = (endTime - startTime) / 1000
                          /\ mz_timeTaken' = <<(mz_now - mz_startTime[1]) \div Second>>
                     ELSE UNCHANGED <<mz_gameCompleted, mz_updateTimer, mz_resetDisplay,
                                      mz_onComplete, mz_endTime, mz_timeTaken>>
             ELSE UNCHANGED <<mz_playerPos, mz_gameCompleted, mz_updateTimer,
                              mz_resetDisplay, mz_onComplete, mz_endTime, mz_timeTaken>>
     /\ UNCHANGED <<mz_mazeSize, mz_complexity, mz_maze, mz_exitPos, mz_gameStarted,
                    mz_untracked, mz_startDisplay, mz_now, mz_startTime>>
     /\ UNCHANGED mzOthers

\* movePlayer as called by handleKeyDown and by the touch buttons
Maze_movePlayer ==
  \E d \in 1..4 : movePlayer(DIRECTIONS[d].x, DIRECTIONS[d].y)

\* updateTime run as the callback of the timeout held in updateTimer
Maze_updateTime ==
  /\ mz_updateTimer
  /\ mz_updateTimer' = (mz_gameStarted /\ ~mz_gameCompleted)
  /\ UNCHANGED <<mz_mazeSize, mz_complexity, mz_maze, mz_playerPos, mz_exitPos,
                 mz_gameStarted, mz_gameCompleted, mz_untracked,
                 mz_startDisplay, mz_resetDisplay, mz_onComplete,
                 mz_now, mz_startTime, mz_endTime, mz_timeTaken>>
  /\ UNCHANGED mzOthers

\* mutant: reset without clearTimeout(updateTimer)
Maze_reset_keepTimer ==
  /\ mz_startDisplay' = TRUE
  /\ mz_resetDisplay' = FALSE
  /\ mz_gameStarted' = FALSE
  /\ mz_gameCompleted' = FALSE
  /\ mz_onComplete' = 0
  /\ mz_timeTaken' = <<>>
  /\ UNCHANGED <<mz_mazeSize, mz_complexity, mz_maze, mz_playerPos, mz_exitPos,
                 mz_updateTimer, mz_untracked, mz_now, mz_startTime, mz_endTime>>
  /\ UNCHANGED mzOthers

\* reset, the controller's method and the click listener of resetButton
Maze_reset ==
  /\ mz_updateTimer' = FALSE                                   \* clearTimeout(updateTimer)
  /\ mz_startDisplay' = TRUE
  /\ mz_resetDisplay' = FALSE
  /\ mz_gameStarted' = FALSE
  /\ mz_gameCompleted' = FALSE
  /\ mz_onComplete' = 0
  /\ mz_timeTaken' = <<>>
  /\ UNCHANGED <<mz_mazeSize, mz_complexity, mz_maze, mz_playerPos, mz_exitPos,
                 mz_untracked, mz_now, mz_startTime, mz_endTime>>
  /\ UNCHANGED mzOthers

\* getTime of the controller returned by init, lines 604-608, in seconds
getTime ==
  IF mz_startTime = <<>> THEN 0
  ELSE LET endTimeValue == IF mz_endTime # <<>> THEN mz_endTime[1] ELSE mz_now
       IN (endTimeValue - mz_startTime[1]) \div Second

Maze_Next ==
  \/ Maze_startGame
  \/ Maze_movePlayer
  \/ Maze_updateTime
  \/ Maze_reset

\* the sizes of the sessions that are followed on the wall clock
TimedMazeSizes == {3, 4}

MazeTimed_Next ==
  \/ Maze_Next
  \/ Maze_timePasses

(***************************************************************************)
(* TrailMakingPuzzle.  Coordinates are integers: the canvas sizes and the  *)
(* random draws are chosen so that every position the code computes is a   *)
(* whole number, and distances are compared by their squares.  The touch   *)
(* listeners pass the touch position to the mouse handlers; lastPoint,     *)
(* which only carries that position, and handleMouseMove, which only       *)
(* redraws, are not part of the state.  startTime and endTime are modelled *)
(* by whether they hold a Date.                                            *)
(***************************************************************************)
DOT_RADIUS == 20
MIN_DISTANCE == 60
maxAttempts == 50

\* const padding = DOT_RADIUS * 2
padding == DOT_RADIUS * 2

\* canvas sizes given to init
GridSizes == {240}

\* values of Math.random() in eighths: the draws of generateDots when its
\* placement is examined, and when a dot set is generated for a session
DotDraws == {0, 4, 7}
SessionDraws == {0, 7}

\* Math.random() * (extent - padding * 2) + padding for Math.random() = f/8
randomCoordinate(f, extent) == (f * (extent - padding * 2)) \div 8 + padding

\* the square of the distance Math.sqrt(Math.pow(..) + Math.pow(..)) is taken of
distanceSquared(a, b) == (a.x - b.x) * (a.x - b.x) + (a.y - b.y) * (a.y - b.y)

\* the inner for loop of generateDots: some existing dot is nearer than MIN_DISTANCE
tooClose(p, dots) ==
  \E k \in 1..Len(dots) : distanceSquared(p, dots[k]) < MIN_DISTANCE * MIN_DISTANCE

\* Math.ceil(Math.sqrt(count))
ceilSqrt(count) == CHOOSE c \in 1..count : c * c >= count /\ (c - 1) * (c - 1) < count

\* the grid position of dot i: col * cellWidth + cellWidth / 2 and
\* row * cellHeight + cellHeight / 2
gridPosition(i, count, width, height) ==
  LET gridCols == ceilSqrt(count)
      gridRows == (count + gridCols - 1) \div gridCols
      col == (i - 1) % gridCols
      row == (i - 1) \div gridCols
  IN [x |-> ((2 * col + 1) * width) \div (2 * gridCols),
      y |-> ((2 * row + 1) * height) \div (2 * gridRows)]

\* the candidate positions of one iteration of the do-while loop
candidates(width, height, draws) ==
  { [x |-> randomCoordinate(fx, width), y |-> randomCoordinate(fy, height)] :
      fx \in draws, fy \in draws }

\* the dot sequences generateDots can leave in `dots` from dot i on: a dot is a
\* candidate that is not too close (drawn in one of the first maxAttempts - 1
\* iterations, all earlier draws being too close), or the grid position (when
\* maxAttempts iterations were made, which takes maxAttempts - 1 draws that
\* are too close)
RECURSIVE placeDots(_, _, _, _, _, _)
placeDots(dots, i, count, width, height, draws) ==
  IF i > count THEN {dots}
  ELSE LET free == { p \in candidates(width, height, draws) : ~tooClose(p, dots) }
           blocked == candidates(width, height, draws) \ free
           positions == free \cup (IF blocked # {} THEN {gridPosition(i, count, width, height)}
                                   ELSE {})
       IN UNION { placeDots(Append(dots, [x |-> p.x, y |-> p.y, number |-> i]),
                            i + 1, count, width, height, draws) : p \in positions }

\* generateDots(count, width, height): every value of `dots` it can produce
generateDots(count, width, height, draws) == placeDots(<<>>, 1, count, width, height, draws)

\* the dot sets a session can be played on
GeneratedDots ==
  [count \in 1..MaxDotCount |->
     [size \in GridSizes |-> generateDots(count, size, size, SessionDraws)]]

\* the module as loaded, before init
Trail_loaded ==
  /\ tr_dotCount = 0 /\ tr_gridSize = 0
  /\ tr_dots = <<>> /\ tr_genI = 0 /\ tr_attempts = 0 /\ tr_placement = <<>>
  /\ tr_lines = <<>> /\ tr_currentDot = 1 /\ tr_errorCount = 0
  /\ tr_startTime = FALSE /\ tr_endTime = FALSE
  /\ tr_isDrawing = FALSE /\ tr_gameStarted = FALSE /\ tr_gameCompleted = FALSE
  /\ tr_startDisplay = FALSE
  /\ tr_timeouts = <<>> /\ tr_onComplete = <<>> /\ tr_sessions = 0
  /\ tr_resultElements = 0

\* init up to its call of generateDots, stopped at the head of the first
\* do-while loop
Trail_initGenerating(count, size) ==
  /\ tr_dotCount = count /\ tr_gridSize = size
  /\ tr_dots = <<>> /\ tr_genI = 1 /\ tr_attempts = 0 /\ tr_placement = <<>>
  /\ tr_lines = <<>> /\ tr_currentDot = 1 /\ tr_errorCount = 0
  /\ tr_startTime = FALSE /\ tr_endTime = FALSE
  /\ tr_isDrawing = FALSE /\ tr_gameStarted = FALSE /\ tr_gameCompleted = FALSE
  /\ tr_startDisplay = FALSE
  /\ tr_timeouts = <<>> /\ tr_onComplete = <<>> /\ tr_sessions = 0
  /\ tr_resultElements = 0

\* init, complete
Trail_init(count, size) ==
  /\ tr_dotCount = count /\ tr_gridSize = size
  /\ tr_dots \in GeneratedDots[count][size]
  /\ tr_genI = count + 1 /\ tr_attempts = 0 /\ tr_placement = <<>>
  /\ tr_lines = <<>> /\ tr_currentDot = 1 /\ tr_errorCount = 0
  /\ tr_startTime = FALSE /\ tr_endTime = FALSE
  /\ tr_isDrawing = FALSE /\ tr_gameStarted = FALSE /\ tr_gameCompleted = FALSE
  /\ tr_startDisplay = TRUE
  /\ tr_timeouts = <<>> /\ tr_onComplete = <<>> /\ tr_sessions = 0
  /\ tr_resultElements = 0

trGame == <<tr_lines, tr_currentDot, tr_errorCount, tr_startTime, tr_endTime,
            tr_isDrawing, tr_gameStarted, tr_gameCompleted, tr_startDisplay,
            tr_timeouts, tr_onComplete, tr_sessions, tr_resultElements>>

\* one iteration of the do-while loop of generateDots that ends with
\* overlapping && attempts < maxAttempts: the loop goes round again
Trail_retryPosition ==
  /\ tr_genI \in 1..tr_dotCount
  /\ \E fx \in DotDraws, fy \in DotDraws :
       LET p == [x |-> randomCoordinate(fx, tr_gridSize), y |-> randomCoordinate(fy, tr_gridSize)]
       IN /\ tooClose(p, tr_dots)
          /\ tr_attempts + 1 < maxAttempts
  /\ tr_attempts' = tr_attempts + 1
  /\ UNCHANGED <<tr_dotCount, tr_gridSize, tr_dots, tr_genI, tr_placement>>
  /\ UNCHANGED trGame
  /\ UNCHANGED trOthers

\* one iteration of the do-while loop that ends the loop, and the rest of the
\* body of the for loop: the grid position if attempts >= maxAttempts, dots.push
Trail_placeDot ==
  /\ tr_genI \in 1..tr_dotCount
  /\ \E fx \in DotDraws, fy \in DotDraws :
       LET p == [x |-> randomCoordinate(fx, tr_gridSize), y |-> randomCoordinate(fy, tr_gridSize)]
           overlapping == tooClose(p, tr_dots)
           attempts == tr_attempts + 1
           q == IF attempts >= maxAttempts
                THEN gridPosition(tr_genI, tr_dotCount, tr_gridSize, tr_gridSize)
                ELSE p
       IN /\ ~(overlapping /\ attempts < maxAttempts)
          /\ tr_dots' = Append(tr_dots, [x |-> q.x, y |-> q.y, number |-> tr_genI])
          /\ tr_placement' = Append(tr_placement,
                                    [grid |-> attempts >= maxAttempts,
                                     overlapping |-> overlapping])
  /\ tr_genI' = tr_genI + 1
  /\ tr_attempts' = 0
  /\ UNCHANGED <<tr_dotCount, tr_gridSize>>
  /\ UNCHANGED trGame
  /\ UNCHANGED trOthers

\* isPointInDot
isPointInDot(point, dot) == distanceSquared(point, dot) <= DOT_RADIUS * DOT_RADIUS

\* dots.find(d => d.number === number): the index of the dot, 0 if there is none
findNumber(number) ==
  IF \E k \in 1..Len(tr_dots) : tr_dots[k].number = number
  THEN CHOOSE k \in 1..Len(tr_dots) :
         tr_dots[k].number = number /\ \A j \in 1..(k - 1) : tr_dots[j].number # number
  ELSE 0

\* dots.find(d => isPointInDot(mousePos, d)): the index of the first dot
\* holding the point, 0 if there is none
findAt(point) ==
  IF \E k \in 1..Len(tr_dots) : isPointInDot(point, tr_dots[k])
  THEN CHOOSE k \in 1..Len(tr_dots) :
         isPointInDot(point, tr_dots[k]) /\ \A j \in 1..(k - 1) : ~isPointInDot(point, tr_dots[j])
  ELSE 0

\* the pointer positions of press and release: the centre of every dot, a
\* point on its rim, a point just outside its rim, and a corner of the canvas
PointerPositions ==
  UNION { { [x |-> tr_dots[k].x, y |-> tr_dots[k].y],
            [x |-> tr_dots[k].x + DOT_RADIUS, y |-> tr_dots[k].y],
            [x |-> tr_dots[k].x + DOT_RADIUS + 1, y |-> tr_dots[k].y] } : k \in 1..Len(tr_dots) }
    \cup { [x |-> 0, y |-> 0] }

trConfig == <<tr_dotCount, tr_gridSize, tr_dots, tr_genI, tr_attempts, tr_placement>>

\* the click listener of startButton
Trail_startClick ==
  /\ tr_startDisplay
  /\ tr_startTime' = TRUE
  /\ tr_gameStarted' = TRUE
  /\ tr_startDisplay' = FALSE
  /\ tr_sessions' = IF tr_gameStarted THEN tr_sessions ELSE IF tr_sessions = 0 THEN 1 ELSE 2
  /\ UNCHANGED <<tr_lines, tr_currentDot, tr_errorCount, tr_endTime, tr_isDrawing,
                 tr_gameCompleted, tr_timeouts, tr_onComplete>>
  /\ UNCHANGED tr_resultElements
  /\ UNCHANGED trConfig
  /\ UNCHANGED trOthers

\* handleMouseDown(e) for a pointer at mousePos (mousedown; touchstart with
\* one touch)
handleMouseDown(mousePos) ==
  /\ tr_genI > tr_dotCount
  /\ LET currentDotObj == findNumber(tr_currentDot)
     IN IF tr_gameCompleted
        THEN UNCHANGED <<tr_isDrawing, tr_startTime, tr_gameStarted, tr_startDisplay,
                         tr_sessions>>
        ELSE IF currentDotObj # 0 /\ isPointInDot(mousePos, tr_dots[currentDotObj])
             THEN /\ tr_isDrawing' = TRUE
                  /\ IF tr_currentDot = 1 /\ ~tr_startTime
                     THEN /\ tr_startTime' = TRUE
                          /\ tr_gameStarted' = TRUE
                          /\ tr_startDisplay' = FALSE
                          /\ tr_sessions' = IF tr_gameStarted THEN tr_sessions
                                            ELSE IF tr_sessions = 0 THEN 1 ELSE 2
                     ELSE UNCHANGED <<tr_startTime, tr_gameStarted, tr_startDisplay,
                                      tr_sessions>>
             ELSE UNCHANGED <<tr_isDrawing, tr_startTime, tr_gameStarted, tr_startDisplay,
                              tr_sessions>>
  /\ UNCHANGED <<tr_lines, tr_currentDot, tr_errorCount, tr_endTime,
                 tr_gameCompleted, tr_timeouts, tr_onComplete>>
  /\ UNCHANGED tr_resultElements
  /\ UNCHANGED trConfig
  /\ UNCHANGED trOthers

Trail_handleMouseDown == \E mousePos \in PointerPositions : handleMouseDown(mousePos)

\* completeGame hands {time, errors} to completeCallback
completeGame_results == [errors |-> tr_errorCount]

\* clickedDot && clickedDot.number !== currentDot, clickedDot an index into dots
isWrongDot_anyDot(clickedDot) == clickedDot # 0

isWrongDot(clickedDot) == clickedDot # 0 /\ tr_dots[clickedDot].number # tr_currentDot

\* handleMouseUp(e) for a pointer at mousePos (mouseup, mouseleave; touchend
\* with the last touch position)
handleMouseUp(mousePos) ==
  /\ tr_genI > tr_dotCount
  /\ IF ~tr_isDrawing \/ tr_gameCompleted
     THEN UNCHANGED <<tr_lines, tr_currentDot, tr_errorCount, tr_endTime, tr_isDrawing,
                      tr_gameCompleted, tr_timeouts, tr_onComplete,
                      tr_resultElements>>
     ELSE
       /\ LET nextDotObj == findNumber(tr_currentDot + 1)
              clickedDot == findAt(mousePos)
          IN IF nextDotObj # 0 /\ isPointInDot(mousePos, tr_dots[nextDotObj])
             THEN /\ tr_lines' = Append(tr_lines, [start |-> tr_currentDot,
                                                   end |-> tr_dots[nextDotObj].number,
                                                   isError |-> FALSE])
                  /\ tr_currentDot' = tr_currentDot + 1
                  /\ IF tr_currentDot + 1 = Len(tr_dots)
                     THEN /\ tr_endTime' = TRUE
                          /\ tr_gameCompleted' = TRUE
                          /\ tr_onComplete' = Append(tr_onComplete, completeGame_results)
                          /\ tr_resultElements' = tr_resultElements + 1
                     ELSE UNCHANGED <<tr_endTime, tr_gameCompleted, tr_onComplete,
                                      tr_resultElements>>
                  /\ UNCHANGED <<tr_errorCount, tr_timeouts>>
             ELSE IF isWrongDot(clickedDot)
                  THEN /\ tr_lines' = Append(tr_lines, [start |-> tr_currentDot,
                                                        end |-> tr_dots[clickedDot].number,
                                                        isError |-> TRUE])
                       /\ tr_errorCount' = tr_errorCount + 1
                       /\ tr_timeouts' = Append(tr_timeouts, FALSE)
                       /\ UNCHANGED <<tr_currentDot, tr_endTime, tr_gameCompleted,
                                      tr_onComplete, tr_resultElements>>
                  ELSE UNCHANGED <<tr_lines, tr_currentDot, tr_errorCount, tr_endTime,
                                   tr_gameCompleted, tr_timeouts, tr_onComplete,
                      tr_resultElements>>
       /\ tr_isDrawing' = FALSE
  /\ UNCHANGED <<tr_startTime, tr_gameStarted, tr_startDisplay, tr_sessions>>
  /\ UNCHANGED trConfig
  /\ UNCHANGED trOthers

\* a release; wrong releases are made while the bounds allow
Trail_handleMouseUp ==
  \E mousePos \in PointerPositions :
    /\ handleMouseUp(mousePos)
    /\ tr_errorCount' <= MaxErrors
    /\ Len(tr_timeouts') <= MaxRemovals

\* lines.filter(line => !line.isError)
withoutErrorLines_keepAll(lines) == lines

withoutErrorLines(lines) == SelectSeq(lines, LAMBDA line : ~line.isError)

\* the callback of setTimeout(..., 500) of handleMouseUp; equal delays run in
\* the order they were scheduled
Trail_removeErrorLines ==
  /\ tr_timeouts # <<>>
  /\ tr_timeouts' = Tail(tr_timeouts)
  /\ tr_lines' = withoutErrorLines(tr_lines)
  /\ UNCHANGED <<tr_currentDot, tr_errorCount, tr_startTime, tr_endTime, tr_isDrawing,
                 tr_gameStarted, tr_gameCompleted, tr_startDisplay, tr_onComplete,
                 tr_sessions>>
  /\ UNCHANGED tr_resultElements
  /\ UNCHANGED trConfig
  /\ UNCHANGED trOthers

\* what init and createControls append to the container, lines 429-433 and
\* 349-376
Trail_created ==
  << element("canvas", "canvas", <<>>),
     element("instructions", "div", <<element("p", "p", <<>>), element("p", "p", <<>>)>>),
     element("startButton", "button", <<>>),
     element("resetButton", "button", <<>>) >>

\* lines 399-402 of reset() for a container with the given number of results
\* elements: whether resultsElement is null, so that line 401 throws a
\* TypeError before drawCanvas() of line 405, and the number of results
\* elements left otherwise
Trail_removeResult ==
  [resultElements \in 0..1 |->
     LET \* the results display of completeGame, lines 326-333
         completed == element("resultsElement", "div",
                              <<element("p", "p", <<>>), element("p", "p", <<>>),
                                element("p", "p", <<>>)>>)
         container == Trail_created \o [k \in 1..resultElements |-> completed]
         resultsElement == querySelector_divLastChild(container, 1)
     IN [throws |-> resultsElement = <<>>,
         left |-> IF resultsElement = <<>> THEN resultElements
                  ELSE IF elementAt(container, resultsElement).name
                            \notin {"resetButton", "startButton", "instructions"}
                       THEN Len(removeElement(container, resultsElement))
                              - Len(Trail_created)
                       ELSE resultElements]]

\* reset() throws at line 401, after the state and the buttons are reset and
\* before the canvas is redrawn
Trail_resetThrows == Trail_removeResult[tr_resultElements].throws

\* mutant: the line list is kept
Trail_reset_keepLines ==
  /\ tr_genI > tr_dotCount
  /\ tr_currentDot' = 1
  /\ UNCHANGED tr_lines
  /\ tr_errorCount' = 0
  /\ tr_startTime' = FALSE
  /\ tr_endTime' = FALSE
  /\ tr_isDrawing' = FALSE
  /\ tr_gameStarted' = FALSE
  /\ tr_gameCompleted' = FALSE
  /\ tr_startDisplay' = TRUE
  /\ tr_timeouts' = [k \in 1..Len(tr_timeouts) |-> TRUE]
  /\ tr_onComplete' = <<>>
  /\ tr_resultElements' = Trail_removeResult[tr_resultElements].left
  /\ UNCHANGED tr_sessions
  /\ UNCHANGED trConfig
  /\ UNCHANGED trOthers

\* reset, the controller's method and the click listener of resetButton
Trail_reset ==
  /\ tr_genI > tr_dotCount
  /\ tr_currentDot' = 1
  /\ tr_lines' = <<>>
  /\ tr_errorCount' = 0
  /\ tr_startTime' = FALSE
  /\ tr_endTime' = FALSE
  /\ tr_isDrawing' = FALSE
  /\ tr_gameStarted' = FALSE
  /\ tr_gameCompleted' = FALSE
  /\ tr_startDisplay' = TRUE
  /\ tr_timeouts' = [k \in 1..Len(tr_timeouts) |-> TRUE]
  /\ tr_onComplete' = <<>>
  /\ tr_resultElements' = Trail_removeResult[tr_resultElements].left
  /\ UNCHANGED tr_sessions
  /\ UNCHANGED trConfig
  /\ UNCHANGED trOthers

TrailDots_Next ==
  \/ Trail_retryPosition
  \/ Trail_placeDot

Trail_Next ==
  \/ Trail_startClick
  \/ Trail_handleMouseDown
  \/ Trail_handleMouseUp
  \/ Trail_removeErrorLines
  \/ Trail_reset

(***************************************************************************)
(* generateMaze seen from inside, for ensurePathToExit.  The writes        *)
(* grid[..][..] = PATH of the carving loop and of the random-path loop     *)
(* (lines 92, 117, 118, 133) are followed as writes to any cells, so that  *)
(* ensurePathToExit is also given grids whose entry and exit are apart.    *)
(***************************************************************************)
\* the loops of generateMaze are not followed one by one
Grid_loopsIdle ==
  /\ gm_pc = "none" /\ gm_complexity = 0
  /\ gm_stack = <<>> /\ gm_i = 0
  /\ gm_openSet = <<>> /\ gm_closedSet = {}
  /\ gm_cursor = <<>>

\* entering generateMaze(width, height, complexity): line 87
Grid_created(width, height) ==
  /\ gm_grid = wallGrid(width, height)
  /\ gm_passed = <<>>
  /\ Grid_loopsIdle

\* generateMaze is not running
Grid_none ==
  /\ gm_grid = <<>>
  /\ gm_passed = <<>>
  /\ Grid_loopsIdle

\* the cells of a grid that are PATH
pathCells(grid) ==
  { c \in (0..(gridWidth(grid) - 1)) \X (0..(gridHeight(grid) - 1)) :
      grid[c[2]][c[1]] = PATH }

\* one write grid[y][x] = PATH of lines 92-134
Grid_writePath ==
  /\ gm_passed = <<>>
  /\ Cardinality(pathCells(gm_grid)) < MaxPathWrites
  /\ \E x \in 0..(gridWidth(gm_grid) - 1) : \E y \in 0..(gridHeight(gm_grid) - 1) :
       /\ gm_grid[y][x] = WALL
       /\ gm_grid' = setCell(gm_grid, x, y, PATH)
  /\ UNCHANGED gm_passed
  /\ UNCHANGED gmLoops
  /\ UNCHANGED gmOthers

\* lines 136-149: the entry and the exit are forced, then
\* ensurePathToExit(grid, playerPos, exitPos) works on the grid in place
Grid_ensurePathToExit ==
  /\ gm_passed = <<>>
  /\ LET width == gridWidth(gm_grid)
         height == gridHeight(gm_grid)
         forced == forceEntryExit(gm_grid, width, height)
     IN /\ gm_passed' = forced
        /\ gm_grid' = ensurePathToExit(forced, [x |-> 1, y |-> 1],
                                       [x |-> width - 2, y |-> height - 2])
  /\ UNCHANGED gmLoops
  /\ UNCHANGED gmOthers

Grid_Next ==
  \/ Grid_writePath
  \/ Grid_ensurePathToExit

(***************************************************************************)
(* The content generators followed one loop iteration at a time:           *)
(* generateMaze with ensurePathToExit (part_005:85-247) and                *)
(* generateSequence (part_006:75-95).  generateDots is followed by         *)
(* Trail_retryPosition and Trail_placeDot.  gm_pc and sq_pc name the loop  *)
(* the call is in, "returned" after its return.                            *)
(***************************************************************************)
\* lines 87-95 of generateMaze(width, height, complexity): the grid of walls,
\* the random start cell made PATH and pushed
Maze_generating(width, height, complexity10) ==
  \E startX \in { 2 * k : k \in 0..((width \div 2) - 1) } :
  \E startY \in { 2 * k : k \in 0..((height \div 2) - 1) } :
    /\ gm_grid = setCell(wallGrid(width, height), startX, startY, PATH)
    /\ gm_passed = <<>>
    /\ gm_pc = "carve" /\ gm_complexity = complexity10
    /\ gm_stack = <<[x |-> startX, y |-> startY]>>
    /\ gm_i = 0
    /\ gm_openSet = <<>> /\ gm_closedSet = {}
    /\ gm_cursor = <<>>

\* the locals of ensurePathToExit, untouched before its call
gmSearch == <<gm_passed, gm_openSet, gm_closedSet, gm_cursor>>

\* mutant: the cell between current and next stays a wall
Maze_carveNext_noPassage ==
  /\ gm_pc = "carve" /\ gm_stack # <<>>
  /\ LET current == gm_stack[Len(gm_stack)]
         neighbors == carveNeighbors(gm_grid, gridWidth(gm_grid), gridHeight(gm_grid), current)
     IN \E next \in neighbors :
          /\ gm_grid' = setCell(gm_grid, next.x, next.y, PATH)
          /\ gm_stack' = Append(gm_stack, [x |-> next.x, y |-> next.y])
  /\ UNCHANGED <<gm_pc, gm_complexity, gm_i>>
  /\ UNCHANGED gmSearch
  /\ UNCHANGED gmOthers

\* one iteration of the carving loop with neighbors.length > 0, lines 99-121
Maze_carveNext ==
  /\ gm_pc = "carve" /\ gm_stack # <<>>
  /\ LET current == gm_stack[Len(gm_stack)]
         neighbors == carveNeighbors(gm_grid, gridWidth(gm_grid), gridHeight(gm_grid), current)
     IN \E next \in neighbors :
          /\ gm_grid' = carvePassage(gm_grid, current, next)
          /\ gm_stack' = Append(gm_stack, [x |-> next.x, y |-> next.y])
  /\ UNCHANGED <<gm_pc, gm_complexity, gm_i>>
  /\ UNCHANGED gmSearch
  /\ UNCHANGED gmOthers

\* one iteration of the carving loop that backtracks, lines 122-125
Maze_carveBacktrack ==
  /\ gm_pc = "carve" /\ gm_stack # <<>>
  /\ carveNeighbors(gm_grid, gridWidth(gm_grid), gridHeight(gm_grid),
                    gm_stack[Len(gm_stack)]) = {}
  /\ gm_stack' = SubSeq(gm_stack, 1, Len(gm_stack) - 1)
  /\ UNCHANGED <<gm_grid, gm_pc, gm_complexity, gm_i>>
  /\ UNCHANGED gmSearch
  /\ UNCHANGED gmOthers

\* the carving loop ends, line 98 with stack.length = 0; i = 0 of line 130
Maze_carveEnd ==
  /\ gm_pc = "carve" /\ gm_stack = <<>>
  /\ gm_pc' = "paths"
  /\ gm_i' = 0
  /\ UNCHANGED <<gm_grid, gm_complexity, gm_stack>>
  /\ UNCHANGED gmSearch
  /\ UNCHANGED gmOthers

\* one iteration of the random-path loop, lines 130-134
Maze_addRandomPath ==
  /\ gm_pc = "paths"
  /\ gm_i < pathCount(gridWidth(gm_grid), gridHeight(gm_grid), gm_complexity)
  /\ \E x \in 1..(gridWidth(gm_grid) - 2) : \E y \in 1..(gridHeight(gm_grid) - 2) :
       gm_grid' = setCell(gm_grid, x, y, PATH)
  /\ gm_i' = gm_i + 1
  /\ UNCHANGED <<gm_pc, gm_complexity, gm_stack>>
  /\ UNCHANGED gmSearch
  /\ UNCHANGED gmOthers

\* the random-path loop ends; lines 136-149 and 161-167: entry and exit
\* forced, ensurePathToExit entered, openSet holds the start node
Maze_enterEnsurePath ==
  /\ gm_pc = "paths"
  /\ gm_i >= pathCount(gridWidth(gm_grid), gridHeight(gm_grid), gm_complexity)
  /\ LET forced == forceEntryExit(gm_grid, gridWidth(gm_grid), gridHeight(gm_grid))
     IN /\ gm_grid' = forced
        /\ gm_passed' = forced
  /\ gm_openSet' = <<[x |-> 1, y |-> 1, g |-> 0, h |-> 0, f |-> 0]>>
  /\ gm_closedSet' = {}
  /\ gm_pc' = "search"
  /\ UNCHANGED <<gm_complexity, gm_stack, gm_i, gm_cursor>>
  /\ UNCHANGED gmOthers

\* exitPos of line 142, the argument `end`
endOf(grid) == [x |-> gridWidth(grid) - 2, y |-> gridHeight(grid) - 2]

\* one iteration of the A* loop, lines 170-231; it returns at line 191 when
\* the node taken is the end
Maze_searchStep ==
  /\ gm_pc = "search" /\ gm_openSet # <<>>
  /\ LET currentIndex == lowestF(gm_openSet, 2, 1)
         current == gm_openSet[currentIndex]
         rest == removeAt(gm_openSet, currentIndex)
         closed == gm_closedSet \cup {<<current.x, current.y>>}
         end == endOf(gm_grid)
     IN /\ gm_closedSet' = closed
        /\ IF current.x = end.x /\ current.y = end.y
           THEN /\ gm_openSet' = rest
                /\ gm_pc' = "returned"
           ELSE /\ gm_openSet' = relaxNeighbors(gm_grid, rest, closed, current, end, 1)
                /\ gm_pc' = "search"
  /\ UNCHANGED <<gm_grid, gm_passed, gm_complexity, gm_stack, gm_i, gm_cursor>>
  /\ UNCHANGED gmOthers

\* the A* loop ends with openSet empty; x = end.x, y = end.y of lines 235-236
Maze_searchFails ==
  /\ gm_pc = "search" /\ gm_openSet = <<>>
  /\ gm_cursor' = <<endOf(gm_grid).x, endOf(gm_grid).y>>
  /\ gm_pc' = "repair"
  /\ UNCHANGED <<gm_grid, gm_passed, gm_complexity, gm_stack, gm_i, gm_openSet, gm_closedSet>>
  /\ UNCHANGED gmOthers

\* mutant: the cursor is moved along x only
moveTowards_xOnly(x, y, start) ==
  IF x > start.x THEN <<x - 1, y>>
  ELSE IF x < start.x THEN <<x + 1, y>>
  ELSE <<x, y>>

\* lines 242-245: x, y moved one cell towards start
moveTowards(x, y, start) ==
  IF x > start.x THEN <<x - 1, y>>
  ELSE IF x < start.x THEN <<x + 1, y>>
  ELSE IF y > start.y THEN <<x, y - 1>>
  ELSE IF y < start.y THEN <<x, y + 1>>
  ELSE <<x, y>>

\* one iteration of the repair loop, lines 238-246, start = playerPos = (1,1)
Maze_repairStep ==
  /\ gm_pc = "repair"
  /\ gm_cursor # <<1, 1>>
  /\ gm_grid' = setCell(gm_grid, gm_cursor[1], gm_cursor[2], PATH)
  /\ gm_cursor' = moveTowards(gm_cursor[1], gm_cursor[2], [x |-> 1, y |-> 1])
  /\ UNCHANGED <<gm_passed, gm_pc, gm_complexity, gm_stack, gm_i, gm_openSet, gm_closedSet>>
  /\ UNCHANGED gmOthers

\* the repair loop ends and ensurePathToExit returns, line 247
Maze_repairEnd ==
  /\ gm_pc = "repair"
  /\ gm_cursor = <<1, 1>>
  /\ gm_pc' = "returned"
  /\ UNCHANGED <<gm_grid, gm_passed, gm_complexity, gm_stack, gm_i, gm_openSet,
                 gm_closedSet, gm_cursor>>
  /\ UNCHANGED gmOthers

\* generateSequence is not running
Sequence_none ==
  /\ sq_pc = "none" /\ sq_seq = <<>> /\ sq_i = 0

\* entering generateSequence(length): line 77 and i = 0 of line 80
Sequence_generating ==
  /\ sq_pc = "fill" /\ sq_seq = <<>> /\ sq_i = 0

\* one iteration of the loop of lines 80-83
Sequence_push ==
  /\ sq_pc = "fill" /\ sq_i < nb_sequenceLength
  /\ \E randomIndex \in 0..2 : sq_seq' = Append(sq_seq, SHAPES[randomIndex + 1])
  /\ sq_i' = sq_i + 1
  /\ UNCHANGED sq_pc
  /\ UNCHANGED nbVars
  /\ UNCHANGED sqOthers

\* the loop of lines 80-83 ends; i = 0 of line 87
Sequence_filled ==
  /\ sq_pc = "fill" /\ sq_i >= nb_sequenceLength
  /\ sq_pc' = "inject"
  /\ sq_i' = 0
  /\ UNCHANGED sq_seq
  /\ UNCHANGED nbVars
  /\ UNCHANGED sqOthers

\* one iteration of the loop of lines 87-92
Sequence_inject ==
  /\ sq_pc = "inject" /\ sq_i < matchCount(nb_sequenceLength, nb_nValue)
  /\ \E matchPos \in nb_nValue..(nb_sequenceLength - 1) :
       sq_seq' = injectMatches(sq_seq, <<matchPos>>, nb_nValue)
  /\ sq_i' = sq_i + 1
  /\ UNCHANGED sq_pc
  /\ UNCHANGED nbVars
  /\ UNCHANGED sqOthers

\* the loop of lines 87-92 ends; return seq, line 94
Sequence_return ==
  /\ sq_pc = "inject" /\ sq_i >= matchCount(nb_sequenceLength, nb_nValue)
  /\ sq_pc' = "returned"
  /\ UNCHANGED <<sq_seq, sq_i>>
  /\ UNCHANGED nbVars
  /\ UNCHANGED sqOthers

\* the iterations of the loops of the three generators
Generators_Next ==
  \/ Maze_carveNext
  \/ Maze_carveBacktrack
  \/ Maze_carveEnd
  \/ Maze_addRandomPath
  \/ Maze_enterEnsurePath
  \/ Maze_searchStep
  \/ Maze_searchFails
  \/ Maze_repairStep
  \/ Maze_repairEnd
  \/ Sequence_push
  \/ Sequence_filled
  \/ Sequence_inject
  \/ Sequence_return
  \/ Trail_retryPosition
  \/ Trail_placeDot

(***************************************************************************)
(* Medical-records routes.  An upload request is handled in one step; a    *)
(* doctor request is handled in two, the part up to `await                 *)
(* accessLog.save()` and the part after it; a patient request for a file   *)
(* in one.  res.sendFile goes on sending after the handler has returned,   *)
(* until Server_sendFileEnds.  authenticateToken and                       *)
(* authorizeRole have let the request through: the requester is a logged-in*)
(* patient or doctor.  A file of the uploads directory is named by the     *)
(* upload it came from and by what it holds: "original" (req.file.path),   *)
(* "thumbnail" (-thumb), "encrypted" (.enc) or "decrypted" (.dec).         *)
(***************************************************************************)
Doctors == {"d1", "d2"}
Patients == {"p1", "p2"}

\* PatientSchema.methods.isDoctorAuthorized
isDoctorAuthorized(patientId, doctorId) == doctorId \in sv_doctors[patientId]

uploadedFile(k, kind) == [upload |-> k, kind |-> kind]

\* generateThumbnail(filePath): the files it leaves and the path it returns;
\* when sharp fails the original path is returned
generateThumbnail(files, k, made) ==
  IF made
  THEN [files |-> files \cup {uploadedFile(k, "thumbnail")},
        path |-> uploadedFile(k, "thumbnail")]
  ELSE [files |-> files, path |-> uploadedFile(k, "original")]

\* encryptFile(filePath): "finish" is the finish event of the output stream,
\* "caught" an exception inside the try block (createCipheriv refusing the
\* key), "error" the error event of the output stream, which rejects; the
\* output file then exists or not
encryptFile(files, k, outcome, partial) ==
  CASE outcome = "finish" ->
         [files |-> (files \ {uploadedFile(k, "original")})
                      \cup {uploadedFile(k, "encrypted")},
          path |-> uploadedFile(k, "encrypted"), rejected |-> FALSE]
    [] outcome = "caught" ->
         [files |-> files, path |-> uploadedFile(k, "original"), rejected |-> FALSE]
    [] outcome = "error" ->
         [files |-> IF partial THEN files \cup {uploadedFile(k, "encrypted")} ELSE files,
          path |-> uploadedFile(k, "encrypted"), rejected |-> TRUE]

\* the server has started: nothing uploaded, nothing logged
Server_started(doctors) ==
  /\ sv_doctors = doctors
  /\ sv_records = {}
  /\ sv_files = {}
  /\ sv_uploads = <<>>
  /\ sv_accessLog = <<>>
  /\ sv_request = <<>>
  /\ sv_sent = <<>>
  /\ sv_answers = <<>>
  /\ sv_cleanups = <<>>
  /\ sv_streams = {}
  /\ sv_patientAnswers = <<>>

\* POST /patient/medical-records; multer has written the file, if one was sent
Server_upload ==
  /\ Len(sv_uploads) < MaxUploads
  /\ \E hasFile \in BOOLEAN, hasFields \in BOOLEAN :
       LET k == Len(sv_uploads) + 1
           stored == IF hasFile THEN sv_files \cup {uploadedFile(k, "original")}
                     ELSE sv_files
       IN IF ~hasFile \/ ~hasFields
          THEN /\ sv_files' = stored
               /\ sv_uploads' = Append(sv_uploads, 400)
               /\ UNCHANGED sv_records
          ELSE \E patientId \in Patients, made \in BOOLEAN,
                  outcome \in {"finish", "caught", "error"} :
               \E partial \in IF outcome = "error" THEN BOOLEAN ELSE {FALSE} :
                 LET thumbnail == generateThumbnail(stored, k, made)
                     encrypted == encryptFile(thumbnail.files, k, outcome, partial)
                 IN /\ sv_files' = encrypted.files
                    /\ \E saved \in IF encrypted.rejected THEN {FALSE} ELSE BOOLEAN :
                         IF ~encrypted.rejected /\ saved
                         THEN /\ sv_records' = sv_records \cup
                                   {[id |-> k, patientId |-> patientId,
                                     filePath |-> encrypted.path,
                                     thumbnailPath |-> thumbnail.path]}
                              /\ sv_uploads' = Append(sv_uploads, 201)
                         ELSE /\ UNCHANGED sv_records
                              /\ sv_uploads' = Append(sv_uploads, 500)
  /\ UNCHANGED <<sv_doctors, sv_accessLog, sv_request, sv_sent, sv_answers, sv_cleanups,
                 sv_streams, sv_patientAnswers>>
  /\ UNCHANGED svOthers

\* a doctor request arrives at one of the routes
\* GET /doctor/patients/:patientId/medical-records ("records"),
\* GET /doctor/medical-records/:id/thumbnail, GET /doctor/medical-records/:id/file
Server_doctorRequest ==
  /\ sv_request = <<>>
  /\ Len(sv_answers) < MaxDoctorRequests
  /\ \E doctorId \in Doctors :
       \/ \E patientId \in Patients :
            sv_request' = <<[route |-> "records", doctorId |-> doctorId,
                             patientId |-> patientId, recordId |-> 0, log |-> 0]>>
       \/ \E route \in {"thumbnail", "file"}, id \in 1..MaxUploads :
            sv_request' = <<[route |-> route, doctorId |-> doctorId,
                             patientId |-> "", recordId |-> id, log |-> 0]>>
  /\ UNCHANGED <<sv_doctors, sv_records, sv_files, sv_uploads, sv_accessLog, sv_sent,
                 sv_answers, sv_cleanups, sv_streams, sv_patientAnswers>>
  /\ UNCHANGED svOthers

\* the action logged by each route
viewAction(route) ==
  CASE route = "records" -> "view_records"
    [] route = "thumbnail" -> "view_thumbnail"
    [] route = "file" -> "view_file"

\* mutant: the entry does not name the record
accessLogEntry_noRecord(request, patientId) ==
  [doctorId |-> request.doctorId, patientId |-> patientId,
   recordId |-> 0, action |-> viewAction(request.route)]

\* new AccessLog({...}) of lines 377-382, 422-428 and 456-462
accessLogEntry(request, patientId) ==
  [doctorId |-> request.doctorId, patientId |-> patientId,
   recordId |-> request.recordId, action |-> viewAction(request.route)]

\* MedicalRecord.findById(req.params.id)
findById(id) == { record \in sv_records : record.id = id }

\* the handler up to and including `await accessLog.save()`
Server_logAccess ==
  /\ sv_request # <<>>
  /\ sv_request[1].log = 0
  /\ LET request == sv_request[1]
         found == findById(request.recordId)
     IN IF request.route # "records" /\ found = {}
        THEN /\ sv_answers' = Append(sv_answers, 404)
             /\ sv_request' = <<>>
             /\ UNCHANGED sv_accessLog
        ELSE LET patientId == IF request.route = "records" THEN request.patientId
                              ELSE (CHOOSE record \in found : TRUE).patientId
             IN \E saved \in BOOLEAN :
                  IF saved
                  THEN /\ sv_accessLog' = Append(sv_accessLog,
                                                 accessLogEntry(request, patientId))
                       /\ sv_request' = <<[request EXCEPT !.patientId = patientId,
                                                          !.log = Len(sv_accessLog) + 1]>>
                       /\ UNCHANGED sv_answers
                  ELSE /\ sv_answers' = Append(sv_answers, 500)
                       /\ sv_request' = <<>>
                       /\ UNCHANGED sv_accessLog
  /\ UNCHANGED <<sv_doctors, sv_records, sv_files, sv_uploads, sv_sent, sv_cleanups,
                 sv_streams, sv_patientAnswers>>
  /\ UNCHANGED svOthers

\* decryptFile(encryptedPath): the decrypted copy takes the name of the
\* encrypted file with .enc replaced by .dec, so every request for a record
\* writes the same path; it throws unless the path names an encrypted file
decryptFile(files, encryptedPath) ==
  IF encryptedPath.kind = "encrypted" /\ encryptedPath \in files
  THEN [files |-> files \cup {uploadedFile(encryptedPath.upload, "decrypted")},
        path |-> uploadedFile(encryptedPath.upload, "decrypted"), thrown |-> FALSE]
  ELSE [files |-> files, path |-> encryptedPath, thrown |-> TRUE]

\* res.sendFile(decryptedPath) of one request, and the closure of its timeout:
\* the path, and the request it belongs to (a doctor request is named by its
\* log entry, a patient request by its place among the patient requests)
fileResponse(decryptedPath, role, request) ==
  [path |-> decryptedPath, role |-> role, request |-> request]

\* what res.json / res.sendFile hands to the doctor
sentData(request) ==
  [doctorId |-> request.doctorId, patientId |-> request.patientId,
   recordId |-> request.recordId, action |-> viewAction(request.route),
   log |-> request.log]

\* the handler after `await accessLog.save()`
Server_sendData ==
  /\ sv_request # <<>>
  /\ sv_request[1].log > 0
  /\ LET request == sv_request[1]
         found == findById(request.recordId)
         record == CHOOSE r \in found : TRUE
     IN CASE request.route = "records" ->
               \* MedicalRecord.find can throw
               \E ok \in BOOLEAN :
                 /\ sv_sent' = IF ok THEN Append(sv_sent, sentData(request)) ELSE sv_sent
                 /\ sv_answers' = Append(sv_answers, IF ok THEN 200 ELSE 500)
                 /\ UNCHANGED <<sv_files, sv_cleanups, sv_streams>>
          [] request.route = "thumbnail" ->
               \* res.sendFile(record.thumbnailPath)
               /\ IF record.thumbnailPath \in sv_files
                  THEN /\ sv_sent' = Append(sv_sent, sentData(request))
                       /\ sv_answers' = Append(sv_answers, 200)
                  ELSE /\ UNCHANGED sv_sent
                       /\ sv_answers' = Append(sv_answers, 404)
               /\ UNCHANGED <<sv_files, sv_cleanups, sv_streams>>
          [] request.route = "file" ->
               LET decrypted == decryptFile(sv_files, record.filePath)
                   response == fileResponse(decrypted.path, "doctor", request.log)
               IN IF ~decrypted.thrown
                  THEN /\ sv_files' = decrypted.files
                       /\ sv_sent' = Append(sv_sent, sentData(request))
                       /\ sv_answers' = Append(sv_answers, 200)
                       /\ sv_streams' = sv_streams \cup {response}
                       /\ sv_cleanups' = Append(sv_cleanups, response)
                  ELSE /\ sv_answers' = Append(sv_answers, 500)
                       /\ UNCHANGED <<sv_files, sv_sent, sv_cleanups, sv_streams>>
  /\ sv_request' = <<>>
  /\ UNCHANGED <<sv_doctors, sv_records, sv_uploads, sv_accessLog, sv_patientAnswers>>
  /\ UNCHANGED svOthers

\* MedicalRecord.findOne({ _id, patientId }) of the patient routes
findOne(id, patientId) ==
  { record \in sv_records : record.id = id /\ record.patientId = patientId }

\* GET /patient/medical-records/:id/file
Server_patientFile ==
  /\ Len(sv_patientAnswers) < MaxPatientRequests
  /\ \E patientId \in Patients, id \in 1..MaxUploads :
       LET found == findOne(id, patientId)
           record == CHOOSE r \in found : TRUE
           decrypted == decryptFile(sv_files, record.filePath)
           response == fileResponse(decrypted.path, "patient", Len(sv_patientAnswers) + 1)
       IN IF found = {}
          THEN /\ sv_patientAnswers' = Append(sv_patientAnswers, 404)
               /\ UNCHANGED <<sv_files, sv_cleanups, sv_streams>>
          ELSE IF ~decrypted.thrown
               THEN /\ sv_files' = decrypted.files
                    /\ sv_patientAnswers' = Append(sv_patientAnswers, 200)
                    /\ sv_streams' = sv_streams \cup {response}
                    /\ sv_cleanups' = Append(sv_cleanups, response)
               ELSE /\ sv_patientAnswers' = Append(sv_patientAnswers, 500)
                    /\ UNCHANGED <<sv_files, sv_cleanups, sv_streams>>
  /\ UNCHANGED <<sv_doctors, sv_records, sv_uploads, sv_accessLog, sv_request,
                 sv_sent, sv_answers>>
  /\ UNCHANGED svOthers

\* res.sendFile has sent the last byte of one of the responses
Server_sendFileEnds ==
  /\ \E response \in sv_streams : sv_streams' = sv_streams \ {response}
  /\ UNCHANGED <<sv_doctors, sv_records, sv_files, sv_uploads, sv_accessLog, sv_request,
                 sv_sent, sv_answers, sv_cleanups, sv_patientAnswers>>
  /\ UNCHANGED svOthers

\* fs.unlinkSync(path): the files it leaves; it throws ENOENT when the file
\* does not exist
unlinkSync(files, path) ==
  [files |-> files \ {path}, thrown |-> path \notin files]

\* the timeout of lines 271-273 or 470-472 fires, five seconds after it was
\* set, so the timeouts fire in the order they were set
Server_cleanupDecrypted ==
  /\ sv_cleanups # <<>>
  /\ sv_files' = unlinkSync(sv_files, Head(sv_cleanups).path).files
  /\ sv_cleanups' = Tail(sv_cleanups)
  /\ UNCHANGED <<sv_doctors, sv_records, sv_uploads, sv_accessLog, sv_request,
                 sv_sent, sv_answers, sv_streams, sv_patientAnswers>>
  /\ UNCHANGED svOthers

Server_Next ==
  \/ Server_upload
  \/ Server_doctorRequest
  \/ Server_logAccess
  \/ Server_sendData
  \/ Server_patientFile
  \/ Server_sendFileEnds
  \/ Server_cleanupDecrypted

(***************************************************************************)
(* Specifications: one engine runs, the others stay as constructed with    *)
(* their default options (TrailMakingPuzzle as loaded, its init not yet    *)
(* called).                                                                *)
(***************************************************************************)
NBack_Default == NBack_init(1, 2)
Clock_Default == Clock_init(<<"1", "0", ":", "1", "0">>)

Maze_Default == Maze_init(10, 7)

\* no patient has named a doctor
Server_Default == Server_started([patientId \in Patients |-> {}])

NBack_Init ==
  /\ \E n \in 1..MaxNValue : \E length \in (n + 1)..MaxSeqLen : NBack_init(n, length)
  /\ Clock_Default
  /\ Maze_Default
  /\ Trail_loaded
  /\ Grid_none
  /\ Sequence_none
  /\ Server_Default

Clock_Init ==
  /\ \E targetTime \in TargetTimes : Clock_init(targetTime)
  /\ NBack_Default
  /\ Maze_Default
  /\ Trail_loaded
  /\ Grid_none
  /\ Sequence_none
  /\ Server_Default

Maze_Init ==
  /\ \E size \in 3..MaxMazeSize : \E complexity10 \in Complexities :
       Maze_init(size, complexity10)
  /\ NBack_Default
  /\ Clock_Default
  /\ Trail_loaded
  /\ Grid_none
  /\ Sequence_none
  /\ Server_Default

\* init with the default complexity of line 53
MazeTimed_Init ==
  /\ \E size \in TimedMazeSizes : Maze_init(size, 7)
  /\ NBack_Default
  /\ Clock_Default
  /\ Trail_loaded
  /\ Grid_none
  /\ Sequence_none
  /\ Server_Default

SpecNBack == NBack_Init /\ [][NBack_Next]_vars

\* timeouts that are due do run
SpecNBackFair == SpecNBack /\ WF_vars(NBack_showNextShape) /\ WF_vars(NBack_blankTimeout)

SpecClock == Clock_Init /\ [][Clock_Next]_vars

\* the first init call is made with the default options
ClockControllers_Init ==
  /\ Clock_Default
  /\ NBack_Default
  /\ Maze_Default
  /\ Trail_loaded
  /\ Grid_none
  /\ Sequence_none
  /\ Server_Default

\* ClockDrawingGame.init called up to MaxControllers times
SpecClockControllers == ClockControllers_Init /\ [][ClockControllers_Next]_vars

SpecMaze == Maze_Init /\ [][Maze_Next]_vars

SpecMazeTimed == MazeTimed_Init /\ [][MazeTimed_Next]_vars

TrailDots_Init ==
  /\ \E count \in 1..MaxDotCount : \E size \in GridSizes : Trail_initGenerating(count, size)
  /\ NBack_Default
  /\ Clock_Default
  /\ Maze_Default
  /\ Grid_none
  /\ Sequence_none
  /\ Server_Default

Trail_Init ==
  /\ \E count \in 1..MaxDotCount : \E size \in GridSizes : Trail_init(count, size)
  /\ NBack_Default
  /\ Clock_Default
  /\ Maze_Default
  /\ Grid_none
  /\ Sequence_none
  /\ Server_Default

\* generateDots, one iteration of its do-while loop at a time
SpecTrailDots == TrailDots_Init /\ [][TrailDots_Next]_vars

SpecTrail == Trail_Init /\ [][Trail_Next]_vars

\* timeouts that are due do run
SpecTrailFair == SpecTrail /\ WF_vars(Trail_removeErrorLines)

Grid_Init ==
  /\ \E width \in 2..MaxGridSide : \E height \in 2..MaxGridSide : Grid_created(width, height)
  /\ Sequence_none
  /\ NBack_Default
  /\ Clock_Default
  /\ Maze_Default
  /\ Trail_loaded
  /\ Server_Default

\* one generateMaze call up to the return of ensurePathToExit
SpecGrid == Grid_Init /\ [][Grid_Next]_vars

\* one of the generators has been entered: generateMaze(size, size, complexity)
\* as startGame calls it, generateSequence(sequenceLength), or generateDots
Generators_Init ==
  /\ \/ /\ \E size \in 2..MaxGenSize : \E complexity10 \in Complexities :
             Maze_generating(size, size, complexity10)
        /\ Sequence_none
        /\ NBack_Default
        /\ Trail_loaded
     \/ /\ \E n \in 1..MaxNValue : \E length \in (n + 1)..MaxSeqLen : NBack_init(n, length)
        /\ Sequence_generating
        /\ Grid_none
        /\ Trail_loaded
     \/ /\ \E count \in 1..MaxDotCount : \E size \in GridSizes :
             Trail_initGenerating(count, size)
        /\ Grid_none
        /\ Sequence_none
        /\ NBack_Default
  /\ Clock_Default
  /\ Maze_Default
  /\ Server_Default

\* one call of a generator, one loop iteration at a time
SpecGenerators == Generators_Init /\ [][Generators_Next]_vars

\* the call runs synchronously: while it has a next iteration, it takes it
SpecGeneratorsFair == SpecGenerators /\ WF_vars(Generators_Next)

\* every patient has named one and the same doctor; the other doctor is
\* authorized for no patient
Server_Init ==
  /\ \E doctorId \in Doctors : Server_started([patientId \in Patients |-> {doctorId}])
  /\ NBack_Default
  /\ Clock_Default
  /\ Maze_Default
  /\ Trail_loaded
  /\ Grid_none
  /\ Sequence_none

SpecServer == Server_Init /\ [][Server_Next]_vars

(***************************************************************************)
(* NBackMemoryGame: properties                                             *)
(***************************************************************************)

\* C2: after reset() and until the next start, no callback scheduled before
\* the reset has run: currentIndex is still -1, nothing is drawn, the score
\* is zero and onComplete has not been invoked.
C2_ResetSafety ==
  nb_afterReset =>
    /\ nb_currentIndex = -1
    /\ nb_canvas = "blank"
    /\ nb_score = ZeroScore
    /\ nb_onComplete = <<>>

\* C3: at most one reveal/blank timeout is pending for the instance in every
\* reachable state (so currentIndex advances once per cycle).
C3_OneTimerChain == NBack_pending <= 1

\* C4: onComplete is invoked exactly once for a session that reaches
\* Completed, never for a session that was reset before completing and never
\* a second time for the same session (NBack engine).
C4_OnCompleteOncePerSession ==
  /\ Len(nb_onComplete) <= 1
  /\ nb_afterReset => nb_onComplete = <<>>
  /\ nb_gameCompleted <=> Len(nb_onComplete) = 1

\* the effect of a counted Match click
C5_Counted ==
  LET isMatch == nb_sequence[nb_currentIndex + 1]
                   = nb_sequence[nb_currentIndex + 1 - nb_nValue]
  IN /\ nb_score'.correct = nb_score.correct + (IF isMatch THEN 1 ELSE 0)
     /\ nb_score'.incorrect = nb_score.incorrect + (IF isMatch THEN 0 ELSE 1)

C5_Ignored ==
  /\ nb_score'.correct = nb_score.correct
  /\ nb_score'.incorrect = nb_score.incorrect

\* C5 (as claimed): a Match click is counted only while the session is Active
\* and a stimulus with index i >= n is displayed; it is ignored before start,
\* during the initial delay, at i < n, during a blank interval and after
\* completion.
C5_MatchOnlyWhileDisplayed ==
  [][NBack_handleMatchClick =>
       IF nb_gameStarted /\ ~nb_gameCompleted
          /\ nb_canvas # "blank" /\ nb_currentIndex >= nb_nValue
       THEN C5_Counted ELSE C5_Ignored]_vars

\* C5 (amended): a Match click is counted exactly while the session is Active
\* and currentIndex i >= n, whether stimulus i is displayed or the blank
\* interval after it is running; it then increments correct when
\* sequence[i] = sequence[i-n] and incorrect otherwise.  Before start, at
\* i < n and after completion it changes neither counter.
C5_MatchWhileIndexAtLeastN ==
  [][NBack_handleMatchClick =>
       IF nb_gameStarted /\ ~nb_gameCompleted /\ nb_currentIndex >= nb_nValue
       THEN C5_Counted ELSE C5_Ignored]_vars

\* a click was counted as correct and another as incorrect, and the canvas is
\* in a blank interval of the running session
C5_Witness ==
  /\ nb_gameStarted /\ ~nb_gameCompleted
  /\ nb_canvas = "blank"
  /\ nb_currentIndex >= nb_nValue
  /\ nb_score.correct = 1 /\ nb_score.incorrect = 1

\* independent post-hoc scan for the true lag-n matches of a sequence
C6_TrueMatches(seq, n) ==
  Cardinality({i \in n..(Len(seq) - 1) : seq[i + 1] = seq[i + 1 - n]})

\* C6: every payload handed to onComplete has correct + missed = total, total
\* the number of true lag-n matches of the sequence, percentageScore =
\* round(100 * correct / total) (0 when total = 0), and correct = 0,
\* missed = total when Match was never clicked in the session.
C6_PayloadAccounting ==
  \A k \in 1..Len(nb_onComplete) :
    LET p == nb_onComplete[k]
    IN /\ p.correct + p.missed = p.total
       /\ p.total = C6_TrueMatches(nb_sequence, nb_nValue)
       /\ IF p.total = 0 THEN p.percentageScore = 0
          ELSE /\ 2 * p.total * p.percentageScore <= 200 * p.correct + p.total
               /\ 200 * p.correct + p.total < 2 * p.total * (p.percentageScore + 1)
       /\ ~nb_pressed => (p.correct = 0 /\ p.missed = p.total)

\* a payload with two true matches of which one was answered
C6_Witness ==
  /\ Len(nb_onComplete) >= 1
  /\ nb_onComplete[1].total = 2
  /\ nb_onComplete[1].correct = 1
  /\ nb_onComplete[1].missed = 1
  /\ nb_onComplete[1].percentageScore = 50

\* C25: for every sequenceLength and lag n with 0 < n < sequenceLength, every
\* index of the sequence that generation, the reveal, Match handling and the
\* final scoring read or write lies in 0..sequenceLength-1, and a generated
\* sequence has exactly sequenceLength symbols, each one of the three shapes.
C25_IndicesInRange ==
  LET range == 0..(nb_sequenceLength - 1)
  IN /\ generateSequence_indices(nb_sequenceLength, nb_nValue) \subseteq range
     /\ showNextShape_indices \subseteq range
     /\ handleMatchClick_indices \subseteq range
     /\ completeGame_indices \subseteq range
     /\ nb_sequence # <<>> =>
          /\ Len(nb_sequence) = nb_sequenceLength
          /\ \A i \in 1..Len(nb_sequence) : \E k \in 1..3 : nb_sequence[i] = SHAPES[k]

\* Match was clicked and counted while the last symbol of a sequence generated
\* with injected matches is the current one
C25_Witness ==
  /\ nb_gameStarted /\ ~nb_gameCompleted
  /\ matchCount(nb_sequenceLength, nb_nValue) > 0
  /\ nb_currentIndex = nb_sequenceLength - 1
  /\ nb_pressed

\* the true lag-n matches among the stimuli revealed so far, indices
\* n..currentIndex
C35_MatchesRevealed ==
  Cardinality({ i \in nb_nValue..nb_currentIndex :
                  i < Len(nb_sequence) /\ At(nb_sequence, i) = At(nb_sequence, i - nb_nValue) })

\* C35: at most one Match response is counted per stimulus, so in every
\* reachable state correct is at most the number of true lag-n matches
\* revealed so far, and at completion 0 <= missed <= total and
\* 0 <= percentageScore <= 100.
C35_OneResponsePerStimulus ==
  /\ nb_gameStarted =>
       /\ nb_score.correct <= C35_MatchesRevealed
       /\ nb_score.correct + nb_score.incorrect <= Max(0, nb_currentIndex - nb_nValue + 1)
  /\ \A k \in 1..Len(nb_onComplete) :
       LET p == nb_onComplete[k]
       IN /\ 0 <= p.missed /\ p.missed <= p.total
          /\ 0 <= p.percentageScore /\ p.percentageScore <= 100

\* a session is in progress and the step neither resets nor restarts it
C32_InSession ==
  /\ nb_gameStarted /\ ~nb_gameCompleted
  /\ nb_gameStarted' /\ ~nb_afterReset'
  /\ ~(nb_startDisplay /\ ~nb_startDisplay')

\* a step of a session in progress that moves currentIndex moves it to the
\* next index, from a blank canvas, and either shows the stimulus of that
\* index or, past the last index, completes the session; no other step
\* completes it
C32_RevealStep ==
  C32_InSession =>
    /\ nb_currentIndex' # nb_currentIndex =>
         /\ nb_currentIndex' = nb_currentIndex + 1
         /\ nb_canvas = "blank"
         /\ IF nb_currentIndex' < nb_sequenceLength
            THEN nb_canvas' = At(nb_sequence, nb_currentIndex') /\ ~nb_gameCompleted'
            ELSE nb_gameCompleted'
    /\ nb_gameCompleted' => nb_currentIndex' = nb_sequenceLength

\* C32: in a started session that is not reset, stimuli are revealed in index
\* order 0, 1, ..., length-1, each exactly once and each followed by a blank
\* interval, and after the last blank interval the session becomes Completed;
\* given that timers fire, every such session eventually completes.
C32_RevealCadence ==
  /\ [][C32_RevealStep]_vars
  /\ (nb_gameStarted /\ ~nb_gameCompleted) ~> (nb_gameCompleted \/ nb_afterReset)

(***************************************************************************)
(* ClockDrawingGame: properties (angles in half degrees)                   *)
(***************************************************************************)

\* C7: init sets targetHourAngle = ((HH + MM/60) mod 12) * 30 and
\* targetMinuteAngle = MM * 6 degrees, 0 at 12 o'clock and clockwise; for
\* "10:10" that is 305 and 60 degrees.
C7_TargetAngles ==
  LET t == parseTime(ck_targetTime)
  IN /\ ck_targetHourAngle = (60 * t.hour + t.minute) % 720
     /\ ck_targetMinuteAngle = 12 * t.minute
     /\ ck_targetTime = <<"1", "0", ":", "1", "0">> =>
          (ck_targetHourAngle = 610 /\ ck_targetMinuteAngle = 120)

\* C8: a Submit made with each hand dragged to the direction of the target
\* time (hour ((HH + MM/60) mod 12) * 30, minute MM * 6) yields score 100.
C8_ExactPlacementScores100 ==
  LET t == parseTime(ck_targetTime)
  IN \A k \in 1..Len(ck_onComplete) :
       (/\ ck_onComplete[k].hourAngle = hourDirection(t)
        /\ ck_onComplete[k].minuteAngle = minuteDirection(t))
       => ck_onComplete[k].score = 100

\* the shortest arc between two directions
C9_ShortestArc(a, b) ==
  LET m == (a - b) % 720
  IN IF m <= 360 THEN m ELSE 720 - m

\* C9: the circular difference calculateScore computes for a hand is the
\* shortest arc between the current and the target direction and lies in
\* [0, 180] degrees.
C9_DiffIsShortestArc ==
  /\ angleDiff(ck_currentHourAngle, ck_targetHourAngle)
       = C9_ShortestArc(ck_currentHourAngle, ck_targetHourAngle)
  /\ angleDiff(ck_currentMinuteAngle, ck_targetMinuteAngle)
       = C9_ShortestArc(ck_currentMinuteAngle, ck_targetMinuteAngle)
  /\ angleDiff(ck_currentHourAngle, ck_targetHourAngle) \in 0..360
  /\ angleDiff(ck_currentMinuteAngle, ck_targetMinuteAngle) \in 0..360

\* C10: the score of calculateScore does not change when 360 degrees is
\* added to the current or to the target angle of either hand.
C10_ScoreUnchangedBy360 ==
  \A dch, dth, dcm, dtm \in {0, 720} :
    calculateScoreOf(ck_currentHourAngle + dch, ck_targetHourAngle + dth,
                     ck_currentMinuteAngle + dcm, ck_targetMinuteAngle + dtm)
      = calculateScore

\* C11: calculateScore returns an integer in [0,100] that is
\* round(0.6 * hourAccuracy + 0.4 * minuteAccuracy), the accuracy of a hand
\* being max(0, 100 - d/1.8) for its circular difference d (the shortest arc);
\* it is 100 when both current angles equal their targets, and a hand whose
\* circular difference is exactly 180 degrees has accuracy exactly 0.
C11_ScoreFormula ==
  LET dHour == C9_ShortestArc(ck_currentHourAngle, ck_targetHourAngle)
      dMinute == C9_ShortestArc(ck_currentMinuteAngle, ck_targetMinuteAngle)
      weighted180 == 6 * Max(0, 1800 - 5 * dHour) + 4 * Max(0, 1800 - 5 * dMinute)
  IN /\ calculateScore \in 0..100
     /\ 180 * calculateScore - 90 <= weighted180
     /\ weighted180 < 180 * calculateScore + 90
     /\ (ck_currentHourAngle = ck_targetHourAngle
           /\ ck_currentMinuteAngle = ck_targetMinuteAngle) => calculateScore = 100
     /\ dHour = 360 => accuracy18(angleDiff(ck_currentHourAngle, ck_targetHourAngle)) = 0
     /\ dMinute = 360 => accuracy18(angleDiff(ck_currentMinuteAngle, ck_targetMinuteAngle)) = 0

\* C12: from a Submit until reset() no event changes the hour or the minute
\* angle (not even a move of a drag that was in progress at the Submit),
\* getScore() keeps returning the submitted score, and no second onComplete
\* call is made.
C12_SubmitOneShot ==
  [][ (ck_onComplete # <<>> /\ ck_onComplete' # <<>>) =>
        /\ ck_currentHourAngle' = ck_currentHourAngle
        /\ ck_currentMinuteAngle' = ck_currentMinuteAngle
        /\ calculateScore' = ck_onComplete[1].score
        /\ ck_onComplete' = ck_onComplete ]_vars

\* C20: two controllers of one engine have independent state: each keeps its
\* own configuration (the target angles its score is taken against are those
\* of the targetTime it was created with), and no init call changes the
\* target, the hand angles or the Submit state of a controller made before.
C20_IndependentControllers ==
  /\ [](\A k \in 1..Len(ck_controllers) :
          LET t == parseTime(ck_controllers[k])
          IN /\ ck_targetHourAngle = calculateAngle(60 * t.hour + t.minute, TRUE)
             /\ ck_targetMinuteAngle = calculateAngle(60 * t.minute, FALSE))
  /\ [][ Len(ck_controllers') > Len(ck_controllers) =>
           UNCHANGED <<ck_targetTime, ck_targetHourAngle, ck_targetMinuteAngle,
                       ck_currentHourAngle, ck_currentMinuteAngle,
                       ck_pointerEvents, ck_submitDisabled>> ]_vars

\* C26: a pointer or touch move changes the angle of at most one hand, namely
\* the hand on which the current drag started, and sets it to a value in
\* [0, 360) degrees; with no drag in progress a move changes neither angle.
C26_MoveStep ==
  Clock_handleMouseMove =>
    /\ ck_dragHand = "none" =>
         UNCHANGED <<ck_currentHourAngle, ck_currentMinuteAngle>>
    /\ ck_dragHand = "hour" =>
         /\ UNCHANGED ck_currentMinuteAngle
         /\ ck_currentHourAngle' \in 0..719
    /\ ck_dragHand = "minute" =>
         /\ UNCHANGED ck_currentHourAngle
         /\ ck_currentMinuteAngle' \in 0..719

C26_MoveOnlyDraggedHand == [][C26_MoveStep]_vars

\* reset() of an engine whose init has run would throw in this state
C33_ResetWouldThrow ==
  \/ Clock_resetThrows
  \/ tr_genI > tr_dotCount /\ Trail_resetThrows

\* a reset() call leaves the state reset and the interaction enabled
C33_ResetStep ==
  /\ Clock_reset =>
       /\ ck_currentHourAngle' = 0 /\ ck_currentMinuteAngle' = 0
       /\ ck_pointerEvents' = "auto" /\ ~ck_submitDisabled'
       /\ ck_resultElements' = 0
  /\ Trail_reset =>
       /\ tr_currentDot' = 1 /\ tr_lines' = <<>> /\ tr_errorCount' = 0
       /\ ~tr_gameStarted' /\ ~tr_gameCompleted' /\ tr_startDisplay'
       /\ tr_resultElements' = 0

\* C33: controller.reset() completes without throwing in every reachable
\* state of every engine, in particular when no result panel exists yet
\* (Clock before any Submit, Trail before completion), and always performs
\* all of its steps (state reset, re-enabling interaction, redraw).
C33_ResetCompletes ==
  /\ []~C33_ResetWouldThrow
  /\ [][C33_ResetStep]_vars

(***************************************************************************)
(* MazeNavigationTask: properties                                          *)
(***************************************************************************)

\* the cells 4-adjacent to a set of cells that are in bounds and PATH
C1_Step(grid, cells) ==
  cells \cup
  { c \in (0..(gridWidth(grid) - 1)) \X (0..(gridHeight(grid) - 1)) :
      /\ grid[c[2]][c[1]] = PATH
      /\ \E p \in cells : Abs(p[1] - c[1]) + Abs(p[2] - c[2]) = 1 }

\* breadth-first search over PATH cells: the number of steps after which
\* `target` is first reached from `cells`, or -1 when it is never reached
RECURSIVE C1_BfsDistance(_, _, _, _)
C1_BfsDistance(grid, cells, target, steps) ==
  IF target \in cells THEN steps
  ELSE LET next == C1_Step(grid, cells)
       IN IF next = cells THEN -1
          ELSE C1_BfsDistance(grid, next, target, steps + 1)

\* C1: in every grid returned by generateMaze the entry (1,1) and the exit
\* (width-2, height-2) are Path cells joined by a 4-connected chain of
\* in-bounds Path cells, whose length is at least their Manhattan distance.
C1_MazeSolvable ==
  mz_maze # <<>> =>
    LET w == gridWidth(mz_maze)
        h == gridHeight(mz_maze)
        dist == C1_BfsDistance(mz_maze, {<<1, 1>>}, <<w - 2, h - 2>>, 0)
    IN /\ w = mz_mazeSize /\ h = mz_mazeSize
       /\ mz_maze[1][1] = PATH
       /\ mz_maze[h - 2][w - 2] = PATH
       /\ dist >= 0
       /\ dist >= Abs(w - 2 - 1) + Abs(h - 2 - 1)

\* a 5 x 5 grid has been generated with an extra random path cell, and its
\* shortest entry-exit path is longer than the Manhattan distance
C1_Witness ==
  /\ mz_maze # <<>>
  /\ mz_mazeSize = 5 /\ mz_complexity = 5
  /\ C1_BfsDistance(mz_maze, {<<1, 1>>}, <<3, 3>>, 0) > 4

\* the session state of the interaction state machine
C22_State(started, completed) ==
  IF ~started THEN "Idle" ELSE IF completed THEN "Completed" ELSE "Active"

\* the cell movePlayer(dx, dy) aims at lies inside the grid and is a Path cell
C21_TargetOpen(dx, dy) ==
  LET x == mz_playerPos.x + dx
      y == mz_playerPos.y + dy
  IN /\ x \in 0..(mz_mazeSize - 1)
     /\ y \in 0..(mz_mazeSize - 1)
     /\ mz_maze[y][x] = PATH

C21_MoveStep ==
  \A d \in 1..4 :
    LET dx == DIRECTIONS[d].x
        dy == DIRECTIONS[d].y
    IN movePlayer(dx, dy) =>
         /\ mz_maze' = mz_maze
         /\ IF C22_State(mz_gameStarted, mz_gameCompleted) = "Active"
               /\ C21_TargetOpen(dx, dy)
            THEN mz_playerPos' = [x |-> mz_playerPos.x + dx, y |-> mz_playerPos.y + dy]
            ELSE UNCHANGED <<mz_playerPos, mz_gameStarted, mz_gameCompleted,
                             mz_updateTimer, mz_untracked>>

C21_PlayerOnPath ==
  mz_gameStarted =>
    /\ mz_playerPos.x \in 0..(mz_mazeSize - 1)
    /\ mz_playerPos.y \in 0..(mz_mazeSize - 1)
    /\ mz_maze[mz_playerPos.y][mz_playerPos.x] = PATH

\* C21: movePlayer(dx, dy) changes playerPos only when the session is Active
\* and the target cell is inside the grid and not a Wall, and then moves the
\* player onto that cell; otherwise playerPos, the grid, the session state and
\* the timers stay as they are.  So in every state of a started session
\* playerPos is an in-bounds Path cell.
C21_MoveOnlyOntoPath == []C21_PlayerOnPath /\ [][C21_MoveStep]_vars

\* an accepted move has taken the player off the entry cell of an Active session
C21_Witness ==
  /\ mz_gameStarted /\ ~mz_gameCompleted
  /\ mz_playerPos # [x |-> 1, y |-> 1]
  /\ mz_maze[mz_playerPos.y][mz_playerPos.x] = PATH

C22_Step ==
  LET from == C22_State(mz_gameStarted, mz_gameCompleted)
      to == C22_State(mz_gameStarted', mz_gameCompleted')
      entersExit == mz_playerPos' # mz_playerPos /\ mz_playerPos' = mz_exitPos
  IN /\ from # to =>
          \/ /\ from = "Idle" /\ to = "Active"
             /\ mz_startDisplay
             /\ mz_maze' \in GeneratedMazes[mz_mazeSize][mz_complexity]
             /\ mz_playerPos' = [x |-> 1, y |-> 1]
             /\ mz_startTime' = <<mz_now>>
             /\ mz_updateTimer'
          \/ /\ from = "Active" /\ to = "Completed"
             /\ entersExit
             /\ mz_endTime' = <<mz_now>>
             /\ ~mz_updateTimer'
          \/ /\ to = "Idle"
             /\ Maze_reset
     /\ (from = "Active" /\ entersExit) => to = "Completed"
     /\ Maze_startGame => (from = "Idle" /\ to = "Active")
     /\ Maze_reset => to = "Idle"
     /\ from # "Active" =>
          \A d \in 1..4 : movePlayer(DIRECTIONS[d].x, DIRECTIONS[d].y) => UNCHANGED mzVars

\* C22: the session state changes only by Idle -> Active on Start (new grid,
\* player on the entry, clock started), Active -> Completed exactly when an
\* accepted move puts the player on exitPos (clock stopped), and any state ->
\* Idle on reset(); in Idle and Completed every move is ignored, and Completed
\* is left only by reset().
C22_SessionStateMachine ==
  /\ [](mz_gameCompleted => mz_gameStarted)
  /\ [][C22_Step]_vars

\* a second session has been completed: Start, exit reached, reset, Start, exit
\* reached
C22_Witness ==
  /\ mz_gameStarted /\ mz_gameCompleted
  /\ mz_playerPos = mz_exitPos
  /\ mz_playerPos # [x |-> 1, y |-> 1]
  /\ mz_startTime # <<>> /\ mz_endTime # <<>>
  /\ mz_startTime[1] > 0

\* the number of updateTime timeouts that are pending
C23_PendingTicks == (IF mz_updateTimer THEN 1 ELSE 0) + mz_untracked

\* C23: a tick of the elapsed-time display is pending exactly while the
\* session is Active and never more than one; completing the maze and reset()
\* cancel it, so no tick scheduled by an earlier session (one whose id
\* updateTimer no longer holds) is left to update the display of a later
\* session or of a Completed one.
C23_OneTickWhileActive ==
  /\ C23_PendingTicks <= 1
  /\ mz_untracked = 0
  /\ (C23_PendingTicks = 1) <=> (mz_gameStarted /\ ~mz_gameCompleted)

\* a later session is Active with its tick pending, after a session that was
\* completed and reset
C23_Witness ==
  /\ mz_gameStarted /\ ~mz_gameCompleted
  /\ mz_endTime # <<>>
  /\ mz_updateTimer
  /\ mz_now > mz_startTime[1]

\* C24: while the session is Active getTime() returns the non-negative time
\* since that session's start; once Completed it returns the value that was
\* handed to onComplete.  This is required of every session, also one started
\* after a reset() that followed a completed session.
C24_GetTime ==
  /\ (mz_gameStarted /\ ~mz_gameCompleted) =>
       /\ getTime >= 0
       /\ getTime = (mz_now - mz_startTime[1]) \div Second
  /\ (mz_gameStarted /\ mz_gameCompleted) =>
       /\ mz_timeTaken # <<>>
       /\ getTime = mz_timeTaken[1]

C30_Between(a, b) == IF a <= b THEN a..b ELSE b..a

\* the cells of the stair-step corridor from `end` toward `start`: along the
\* row of `end` to the column of `start`, then along that column; `start`
\* itself is not part of it
C30_Corridor(start, end) ==
  ({ <<x, end.y>> : x \in C30_Between(start.x, end.x) }
     \cup { <<start.x, y>> : y \in C30_Between(start.y, end.y) })
    \ { <<start.x, start.y>> }

\* C30: ensurePathToExit leaves the grid unchanged exactly when the entry and
\* the exit are already joined by a 4-connected chain of Path cells, which is
\* also exactly when its A* search reaches the exit; otherwise the only cells
\* it changes lie on the stair-step corridor from the exit toward the entry,
\* and it changes them to Path.
C30_RepairOnlyWhenApart ==
  gm_passed # <<>> =>
    LET width == gridWidth(gm_passed)
        height == gridHeight(gm_passed)
        start == [x |-> 1, y |-> 1]
        end == [x |-> width - 2, y |-> height - 2]
        joined == C1_BfsDistance(gm_passed, {<<start.x, start.y>>},
                                 <<end.x, end.y>>, 0) >= 0
    IN /\ (gm_grid = gm_passed) <=> joined
       /\ aStarReaches(gm_passed,
                       <<[x |-> start.x, y |-> start.y, g |-> 0, h |-> 0, f |-> 0]>>,
                       {}, end) <=> joined
       /\ \A x \in 0..(width - 1) : \A y \in 0..(height - 1) :
            gm_grid[y][x] # gm_passed[y][x] =>
              /\ ~joined
              /\ <<x, y>> \in C30_Corridor(start, end)
              /\ gm_grid[y][x] = PATH

\* ensurePathToExit has carved the corridor of a 4 x 4 grid whose entry and
\* exit were apart
C30_Witness ==
  /\ gm_passed # <<>>
  /\ gridWidth(gm_passed) = 4 /\ gridHeight(gm_passed) = 4
  /\ gm_grid # gm_passed
  /\ gm_grid[2][1] = PATH /\ gm_passed[2][1] = WALL

\* the PATH cells a 4-connected chain of PATH cells joins to `cells`
RECURSIVE C31_Joined(_, _)
C31_Joined(grid, cells) ==
  LET next == C1_Step(grid, cells)
  IN IF next = cells THEN cells ELSE C31_Joined(grid, next)

\* the pairs of 4-adjacent PATH cells, each pair named by its left or upper cell
C31_Adjacencies(grid) ==
  { e \in pathCells(grid) \X {<<1, 0>>, <<0, 1>>} :
      <<e[1][1] + e[2][1], e[1][2] + e[2][2]>> \in pathCells(grid) }

\* the Path cells form a tree: connected, and one adjacency fewer than cells,
\* which is to say exactly one simple chain between any two of them
C31_Tree(grid) ==
  LET cells == pathCells(grid)
  IN /\ cells # {}
     /\ \A c \in cells : C31_Joined(grid, {c}) = cells
     /\ Cardinality(C31_Adjacencies(grid)) = Cardinality(cells) - 1

\* the carving loop of generateMaze has ended and nothing was done after it
C31_Carved == gm_pc = "paths" /\ gm_i = 0

\* C31: when the carving loop of generateMaze has ended, before the extra
\* cells, the forcing of entry and exit and the repair, every cell with both
\* coordinates even is Path and the Path cells form a connected, loop-free
\* region, whatever the random choices were.
C31_PerfectMaze ==
  C31_Carved =>
    /\ \A x \in 0..(gridWidth(gm_grid) - 1) : \A y \in 0..(gridHeight(gm_grid) - 1) :
         (x % 2 = 0 /\ y % 2 = 0) => gm_grid[y][x] = PATH
    /\ C31_Tree(gm_grid)

\* the carving loop has ended on a 5 x 5 grid in which it backtracked and
\* branched: some cell has three Path neighbours
C31_Witness ==
  /\ C31_Carved
  /\ gridWidth(gm_grid) = 5
  /\ \E c \in pathCells(gm_grid) :
       Cardinality({ n \in pathCells(gm_grid) :
                       Abs(n[1] - c[1]) + Abs(n[2] - c[2]) = 1 }) >= 3

(***************************************************************************)
(* TrailMakingPuzzle: properties                                           *)
(***************************************************************************)

\* the point lies within the radius of the dot numbered number
C13_InDot(point, number) ==
  \E k \in 1..Len(tr_dots) : tr_dots[k].number = number /\ isPointInDot(point, tr_dots[k])

\* a press starts a drag only inside dot currentDot, and the clock runs after it
C13_Press(point) ==
  handleMouseDown(point) =>
    /\ (tr_isDrawing' /\ ~tr_isDrawing) => C13_InDot(point, tr_currentDot)
    /\ (C13_InDot(point, tr_currentDot) /\ ~tr_gameCompleted)
         => (tr_isDrawing' /\ tr_startTime')

\* a release inside dot currentDot+1 commits a non-error line and advances
C13_ReleaseOnNext(point) ==
  (tr_isDrawing /\ ~tr_gameCompleted /\ C13_InDot(point, tr_currentDot + 1)) =>
    /\ tr_lines' = Append(tr_lines, [start |-> tr_currentDot, end |-> tr_currentDot + 1,
                                     isError |-> FALSE])
    /\ tr_currentDot' = tr_currentDot + 1
    /\ tr_errorCount' = tr_errorCount

\* a release that commits an error line to the dot numbered number
C13_ErrorCommitted(number) ==
  /\ tr_lines' = Append(tr_lines, [start |-> tr_currentDot, end |-> number, isError |-> TRUE])
  /\ tr_errorCount' = tr_errorCount + 1
  /\ tr_currentDot' = tr_currentDot

\* a release that is not a connection
C13_NothingCommitted ==
  UNCHANGED <<tr_currentDot, tr_errorCount, tr_lines>>

\* C13 as stated: a press starts a drag only inside dot currentDot (and the
\* clock runs from the first such press); a release ending a drag inside dot
\* currentDot+1 adds a non-error line and advances currentDot; a release inside
\* any other dot adds an error line and increments errors; a release outside
\* every dot, or without a drag, changes neither currentDot, errors nor lines.
C13_PressAndRelease ==
  [][ \A point \in PointerPositions :
        /\ C13_Press(point)
        /\ handleMouseUp(point) =>
             /\ C13_ReleaseOnNext(point)
             /\ (tr_isDrawing /\ ~tr_gameCompleted /\ ~C13_InDot(point, tr_currentDot + 1)
                   /\ findAt(point) # 0)
                  => \E k \in 1..Len(tr_dots) :
                       isPointInDot(point, tr_dots[k]) /\ C13_ErrorCommitted(tr_dots[k].number)
             /\ (~tr_isDrawing \/ tr_gameCompleted \/ findAt(point) = 0)
                  => C13_NothingCommitted ]_vars

\* C13 as the code has it: as above, but the dot a release counts for is the
\* first dot in number order that holds the point, and a release that counts
\* for dot currentDot itself (not being inside dot currentDot+1) changes
\* neither currentDot, errors nor lines.
C13_ReleaseCountsForFirstDot ==
  [][ \A point \in PointerPositions :
        /\ C13_Press(point)
        /\ handleMouseUp(point) =>
             /\ C13_ReleaseOnNext(point)
             /\ (tr_isDrawing /\ ~tr_gameCompleted /\ ~C13_InDot(point, tr_currentDot + 1)
                   /\ findAt(point) # 0 /\ tr_dots[findAt(point)].number # tr_currentDot)
                  => C13_ErrorCommitted(tr_dots[findAt(point)].number)
             /\ (~tr_isDrawing \/ tr_gameCompleted \/ findAt(point) = 0
                   \/ (~C13_InDot(point, tr_currentDot + 1)
                         /\ findAt(point) # 0
                         /\ tr_dots[findAt(point)].number = tr_currentDot))
                  => C13_NothingCommitted ]_vars

\* a wrong release was followed by a right one
C13_Witness ==
  /\ tr_errorCount >= 1
  /\ tr_currentDot >= 2
  /\ \E k \in 1..Len(tr_lines) : tr_lines[k].isError
  /\ \E k \in 1..Len(tr_lines) : ~tr_lines[k].isError

\* C14: for every dotCount >= 1 the session is Completed, and onComplete has
\* received the results with errors = errorCount, exactly in the states where
\* currentDot equals dotCount.
C14_CompletedIffAllConnected ==
  tr_dots # <<>> =>
    /\ tr_gameCompleted <=> (tr_currentDot = tr_dotCount)
    /\ tr_gameCompleted => tr_onComplete = <<[errors |-> tr_errorCount]>>
    /\ ~tr_gameCompleted => tr_onComplete = <<>>

\* C15: in the dot set of generateDots, if no dot used the grid position then
\* every two dots are at least MIN_DISTANCE apart and every dot lies in the
\* padded canvas; otherwise the positions are pairwise distinct and lie in
\* the canvas.
C15_DotPlacement ==
  IF \A k \in 1..Len(tr_placement) : ~tr_placement[k].grid
  THEN /\ \A j, k \in 1..Len(tr_dots) :
            j # k => distanceSquared(tr_dots[j], tr_dots[k]) >= MIN_DISTANCE * MIN_DISTANCE
       /\ \A k \in 1..Len(tr_dots) :
            /\ tr_dots[k].x >= padding /\ tr_dots[k].x < tr_gridSize - padding
            /\ tr_dots[k].y >= padding /\ tr_dots[k].y < tr_gridSize - padding
  ELSE /\ \A j, k \in 1..Len(tr_dots) :
            j # k => (tr_dots[j].x # tr_dots[k].x \/ tr_dots[j].y # tr_dots[k].y)
       /\ \A k \in 1..Len(tr_dots) :
            /\ tr_dots[k].x >= 0 /\ tr_dots[k].x <= tr_gridSize
            /\ tr_dots[k].y >= 0 /\ tr_dots[k].y <= tr_gridSize

\* C16: a dot is placed at the first of at most maxAttempts candidates that is
\* at least MIN_DISTANCE from every dot placed before, and at the grid
\* position only when every one of the maxAttempts candidates was rejected.
C16_GridOnlyWhenAllRejected ==
  \A k \in 1..Len(tr_placement) :
    /\ tr_placement[k].grid => tr_placement[k].overlapping
    /\ ~tr_placement[k].grid =>
         /\ ~tr_placement[k].overlapping
         /\ ~tooClose(tr_dots[k], SubSeq(tr_dots, 1, k - 1))

\* the error lines of the list
C17_ErrorLines == { k \in 1..Len(tr_lines) : tr_lines[k].isError }

\* the non-error lines of the list are still its first non-error lines after the step
C17_NonErrorLinesKept ==
  LET before == SelectSeq(tr_lines, LAMBDA line : ~line.isError)
      after == SelectSeq(tr_lines', LAMBDA line : ~line.isError)
  IN Len(after) >= Len(before) /\ SubSeq(after, 1, Len(before)) = before

\* C17: every error line is removed: while it is in the list a removal
\* scheduled at or after its release is still pending, and it is gone once the
\* pending removals have run; a non-error line stays in the list until reset().
C17_ErrorLinesRemoved ==
  /\ [](Cardinality(C17_ErrorLines) <= Cardinality({ k \in 1..Len(tr_timeouts) : ~tr_timeouts[k] }))
  /\ (C17_ErrorLines # {}) ~> (C17_ErrorLines = {})
  /\ [][Trail_reset \/ C17_NonErrorLinesKept]_vars

\* an error line and a non-error line are in the list, the removal pending
C17_Witness ==
  /\ C17_ErrorLines # {}
  /\ \E k \in 1..Len(tr_lines) : ~tr_lines[k].isError
  /\ tr_timeouts # <<>>

\* C18: a removal callback scheduled before reset() does not run after it.
C18_NoRemovalAfterReset ==
  [][ Len(tr_timeouts') < Len(tr_timeouts) => ~Head(tr_timeouts) ]_vars

\* C19: after reset() the engine is Idle (counters zeroed, no clock running)
\* and the dot set the next session is played on is newly generated: no dot
\* set serves two sessions.
C19_ResetGivesFreshContent ==
  /\ [][ Trail_reset => (/\ tr_currentDot' = 1 /\ tr_errorCount' = 0 /\ tr_lines' = <<>>
                         /\ ~tr_startTime' /\ ~tr_gameStarted' /\ ~tr_gameCompleted'
                         /\ ~tr_isDrawing') ]_vars
  /\ [](tr_sessions <= 1)

\* the lines of the line list that are not error lines, oldest first
C36_ConnectingLines == SelectSeq(tr_lines, LAMBDA line : ~line.isError)

\* there is one connecting line per dot passed, and the k-th joins dot k to
\* dot k + 1
C36_LinesFollowDots ==
  tr_genI > tr_dotCount =>
    /\ Len(C36_ConnectingLines) = tr_currentDot - 1
    /\ \A k \in 1..Len(C36_ConnectingLines) :
         /\ C36_ConnectingLines[k].start = tr_dots[k].number
         /\ C36_ConnectingLines[k].end = tr_dots[k + 1].number
         /\ tr_dots[k].number = k /\ tr_dots[k + 1].number = k + 1

\* currentDot and errorCount do not decrease, except in a reset(), which
\* returns them to 1 and 0
C36_CountersStep ==
  /\ (tr_currentDot' < tr_currentDot \/ tr_errorCount' < tr_errorCount) => Trail_reset
  /\ Trail_reset => (tr_currentDot' = 1 /\ tr_errorCount' = 0)
  /\ ~Trail_reset =>
       ~(tr_currentDot' = 1 /\ tr_errorCount' = 0
           /\ (tr_currentDot # 1 \/ tr_errorCount # 0))

\* C36: in every reachable state the number of non-error lines equals
\* currentDot - 1 and line k joins dot k to dot k+1; currentDot never decreases
\* and errors never decreases within a session, and both return to their
\* initial values (1 and 0) only on reset().
C36_LinesAndCounters ==
  /\ []C36_LinesFollowDots
  /\ [][C36_CountersStep]_vars

\* in a session started after a reset(), two dots have been connected after a
\* wrong release whose error line is still listed
C36_Witness ==
  /\ tr_sessions = 2
  /\ tr_currentDot = 3 /\ tr_errorCount > 0
  /\ Len(tr_lines) = 3 /\ tr_lines[1].isError

\* the error lines of the line list, oldest first
C34_ErrorLinesOf(lines) == SelectSeq(lines, LAMBDA line : line.isError)

\* a removal callback takes out the error line of the wrong release that
\* scheduled it, the oldest one still listed, and no other; a callback
\* scheduled before the last reset(), whose line reset() dropped, takes out
\* none
C34_RemovalStep ==
  Trail_removeErrorLines =>
    LET errorLines == C34_ErrorLinesOf(tr_lines)
    IN IF Head(tr_timeouts)
       THEN C34_ErrorLinesOf(tr_lines') = errorLines
       ELSE errorLines # <<>> /\ C34_ErrorLinesOf(tr_lines') = Tail(errorLines)

\* C34: each error line stays in the line list for its own full removal
\* delay: it is removed only by the timer scheduled at its own wrong release,
\* not earlier by the timer of a previous wrong release, for any interleaving
\* of wrong releases and timer firings.
C34_RemovedByOwnTimer == [][C34_RemovalStep]_vars

(***************************************************************************)
(* Content generators: properties                                          *)
(***************************************************************************)

\* a generator is inside one of its loops
C38_Running ==
  \/ gm_pc \in {"carve", "paths", "search", "repair"}
  \/ sq_pc \in {"fill", "inject"}
  \/ tr_genI \in 1..tr_dotCount

\* the generator that was entered has returned
C38_Returned ==
  /\ gm_pc \in {"none", "returned"}
  /\ sq_pc \in {"none", "returned"}
  /\ tr_genI \notin 1..tr_dotCount

\* at the head of the do-while loop of generateDots fewer than maxAttempts
\* candidates have been drawn for the current dot
C38_AttemptsBounded == tr_attempts < maxAttempts

\* C38: every content generator terminates for every valid configuration and
\* every outcome of its random draws: generateMaze (carving loop, A* search and
\* repair loop), generateSequence, and generateDots, which draws at most 50
\* candidate positions per dot.
C38_GeneratorsTerminate ==
  /\ []C38_AttemptsBounded
  /\ C38_Running ~> C38_Returned

\* generateMaze has returned after its A* search found no path and the repair
\* loop walked from the exit to the entry
C38_Witness ==
  /\ gm_pc = "returned"
  /\ gm_cursor = <<1, 1>>
  /\ gm_openSet = <<>>

(***************************************************************************)
(* Medical-records routes: properties                                      *)
(***************************************************************************)

\* C27: a doctor is sent a patient's record list, a thumbnail or a full file
\* only if that doctor is in patient.doctors.
C27_OnlyAuthorizedDoctors ==
  \A i \in 1..Len(sv_sent) :
    isDoctorAuthorized(sv_sent[i].patientId, sv_sent[i].doctorId)

\* C28: once an upload request has been answered the uploads directory holds
\* no unencrypted copy of the uploaded image; the filePath of a stored record
\* names an encrypted file whose original has been deleted; an upload that was
\* answered 400 or 500 has left no file behind.
C28_NoPlaintextLeft ==
  /\ \A k \in 1..Len(sv_uploads) : uploadedFile(k, "original") \notin sv_files
  /\ \A record \in sv_records :
       /\ record.filePath.kind = "encrypted"
       /\ record.filePath \in sv_files
  /\ \A k \in 1..Len(sv_uploads) :
       sv_uploads[k] # 201 => \A file \in sv_files : file.upload # k

\* the first part of a handler has ended without saving a log entry: the
\* request is over and nothing has been sent
C29_NotSavedNotSent ==
  (Server_logAccess /\ UNCHANGED sv_accessLog) =>
    (sv_request' = <<>> /\ UNCHANGED sv_sent)

C29_EntryOfEachSending ==
  /\ \A i \in 1..Len(sv_sent) :
       LET data == sv_sent[i]
       IN /\ data.log \in 1..Len(sv_accessLog)
          /\ sv_accessLog[data.log] =
               [doctorId |-> data.doctorId, patientId |-> data.patientId,
                recordId |-> data.recordId, action |-> data.action]
          /\ \A j \in 1..Len(sv_sent) : j # i => sv_sent[j].log # data.log
  /\ \A i \in 1..Len(sv_accessLog) :
       sv_accessLog[i].action \in {"view_records", "view_thumbnail", "view_file"}

\* C29: every doctor request that is sent a record list, a thumbnail or a full
\* file has created its own AccessLog entry, naming the doctor, the patient,
\* the record where there is one and the action, before the data is sent; when
\* the entry cannot be saved no record data is sent.
C29_LoggedBeforeSent == []C29_EntryOfEachSending /\ [][C29_NotSavedNotSent]_vars

\* a doctor has been sent a thumbnail or a file after the entry was saved, and
\* another request was answered without an entry and without data
C29_Witness ==
  /\ \E i \in 1..Len(sv_sent) : sv_sent[i].recordId > 0
  /\ Len(sv_accessLog) < Len(sv_answers)
  /\ Len(sv_sent) < Len(sv_answers)
  /\ 500 \in { sv_answers[i] : i \in 1..Len(sv_answers) }

\* a response still being sent, whose own timeout has not fired yet, has its
\* decrypted file
C37_FileWhileSending ==
  \A response \in sv_streams :
    (\E j \in 1..Len(sv_cleanups) : sv_cleanups[j] = response) =>
      response.path \in sv_files

\* the timeout callback deletes the file of its request and does not throw
C37_CleanupStep ==
  Server_cleanupDecrypted =>
    /\ ~unlinkSync(sv_files, Head(sv_cleanups).path).thrown
    /\ Head(sv_cleanups).path \notin sv_files'

\* C37: when two requests for the full file of the same record overlap, from
\* the patient endpoint, the doctor endpoint or both, each response is served
\* from a decrypted temporary file that still exists until that response has
\* been sent, and the five-second cleanup of each request deletes its
\* temporary file without an unhandled exception.
C37_OverlappingFileRequests ==
  /\ []C37_FileWhileSending
  /\ [][C37_CleanupStep]_vars

====
